---- MODULE Spec2Model ----
(***************************************************************************)
(* A model of wvasp's output-analysis engine: EnergyAnalyzer (OUTCAR) and  *)
(* DOSAnalyzer (DOSCAR) over one calculation directory, and the analyzers  *)
(* built on the EnergyAnalyzer (NEBAnalyzer, MDAnalyzer, BandAnalyzer).    *)
(*                                                                         *)
(* Numbers.  Every energy, force, stress, moment and density read from a   *)
(* file is a decimal with a fixed number of digits; the model keeps it as  *)
(* the integer count of its last digit (energies in 0.001 eV), so sums,    *)
(* differences and comparisons are exact.  Float rounding is not modelled. *)
(*                                                                         *)
(* Files.  A file is the sequence of its lines (readlines()).  An OUTCAR   *)
(* line is [k |-> kind, v |-> number]: the kind fixes which substrings and *)
(* patterns the line carries and how str.split() cuts it, v is the number  *)
(* printed in it.  A DOSCAR line is the sequence of its fields.            *)
(***************************************************************************)
EXTENDS Integers, Sequences, FiniteSets, TLC

VARIABLES
    outcar_exists,   \* Path(OUTCAR).exists()
    outcar,          \* the lines of the OUTCAR
    doscar_exists,   \* Path(DOSCAR).exists()
    doscar,          \* the lines of the DOSCAR
    e_data,          \* EnergyAnalyzer._data: <<>> is None, <<record>> is the dict
    e_is_loaded,     \* EnergyAnalyzer._is_loaded
    dos_data,        \* DOSAnalyzer.dos_data: <<>> is None, <<record>> is the dict
    d_fermi,         \* DOSAnalyzer.fermi_energy: <<>> is None, <<x>> is x
    d_is_loaded,     \* DOSAnalyzer._is_loaded
    parses,          \* how many times EnergyAnalyzer._parse_outcar ran on the instance
    last,            \* the last call: its name, argument, exception or value
    watched,         \* one query of the EnergyAnalyzer and what its first call returned
    composite,       \* the NEBAnalyzer, MDAnalyzer or BandAnalyzer built on the OUTCAR
    series,          \* the sequence a caller passes to the methods that take one
    threads          \* the threads that query the EnergyAnalyzer, each at its step

vars == <<outcar_exists, outcar, doscar_exists, doscar, e_data, e_is_loaded,
          dos_data, d_fermi, d_is_loaded, parses, last, watched, composite, series, threads>>

----------------------------------------------------------------------------
(* Bounds of the model *)

\* sections of an OUTCAR in the directory model
MaxSections == 2
\* lines of an OUTCAR in the reducer models
MaxLines == 3
\* calls of _parse_outcar followed on one instance
MaxParses == 2
\* body lines of a DOSCAR
MaxRows == 3

----------------------------------------------------------------------------
(* Python values *)

None == <<>>
Some(x) == <<x>>

Last(s) == s[Len(s)]

Abs(x) == IF x < 0 THEN -x ELSE x

Min(a, b) == IF a < b THEN a ELSE b

\* "x = value" then Body(x): the value is computed once and named
With(value, Body(_)) == CHOOSE result \in {Body(x) : x \in {value}} : TRUE

\* the sequences over S of length at most n
SeqsUpTo(S, n) == UNION {[1..k -> S] : k \in 0..n}

RECURSIVE Flatten(_)
Flatten(ss) == IF ss = <<>> THEN <<>> ELSE Head(ss) \o Flatten(Tail(ss))

----------------------------------------------------------------------------
(* OUTCAR lines *)

Line(kind, val) == [k |-> kind, v |-> val]

\* a field of str.split(): a number float() accepts, or a word it rejects
N(x) == [num |-> TRUE, v |-> x]
W == [num |-> FALSE, v |-> 0]

\* line.split()
Split(l) ==
    CASE l.k = "toten"    -> <<W, W, W, W, N(l.v), W>>      \* free energy TOTEN = -10.05000000 eV
      [] l.k = "totenbad" -> <<W, W, W, W, W, W>>           \* free energy TOTEN = ************ eV
      [] l.k = "fheader"  -> <<W, W, W>>                    \* POSITION TOTAL-FORCE (eV/Angst)
      [] l.k = "fhalf"    -> <<W, W>>                       \* TOTAL-FORCE (eV/Angst), no POSITION
      [] l.k = "posonly"  -> <<W, W>>                       \* POSITION TOTAL-FORCE, no unit
      [] l.k = "frow"     -> <<N(0), N(0), N(0), N(l.v), N(0), N(0)>>
      [] l.k = "frowbad"  -> <<N(0), N(0), N(0), W, N(0), N(0)>>  \* x y z ******** fy fz
      [] l.k = "sep"      -> <<W>>                          \* ------------------
      [] l.k = "blank"    -> <<>>
      [] l.k = "sheader"  -> <<W, W, W, W, W, W, W, W, W>>  \* FORCE on cell =-STRESS in cart. coord. units (eV):
      [] l.k = "srow"     -> <<W, W, N(l.v), N(l.v), N(l.v), N(0), N(0), N(0)>>  \* in kB xx yy zz xy yz zx
      [] l.k = "fermi"    -> <<W, W, N(l.v), W, N(-6000), W, W, N(-5000)>>  \* E-fermi : x XC(G=0): y alpha+bet : z
      [] l.k = "mheader"  -> <<W, W>>                       \* magnetization (x)
      [] l.k = "mrow"     -> <<N(1), N(0), N(0), N(0), N(l.v)>>  \* ion s p d tot
      [] l.k = "iter"     -> <<W, W, W, W>>                 \* a line with ITERATION and ENERGY
      [] l.k = "dav"      -> <<W, N(1), N(l.v), N(l.v), N(0), N(8), N(1)>>  \* DAV: n E dE d eps ncg rms
      [] l.k = "acc"      -> <<W, W, W, W, W, W, W, W, W>>  \* reached required accuracy - stopping ...
      [] l.k = "cpu"      -> <<W, W, W, W, W, N(l.v)>>      \* Total CPU time used (sec): t
      [] l.k = "elapsed"  -> <<W, W, W, N(l.v)>>            \* Elapsed time (sec): t
      [] OTHER            -> <<W, W>>                       \* corrupted content

\* energy_pattern.search(line)
EnergyMatch(l) == l.k = "toten"
\* 'TOTAL-FORCE (eV/Angst)' in line
HasForceHeader(l) == l.k \in {"fheader", "fhalf"}
\* line.strip() == '' or '---' in line
EndsBlock(l) == l.k = "blank" \/ l.k = "sep"
\* 'FORCE on cell =-STRESS in cart. coord.  units (eV):' in line
HasStressHeader(l) == l.k = "sheader"
\* stress_pattern.search(line)
StressMatch(l) == l.k = "srow"
\* fermi_pattern.search(line)
FermiMatch(l) == l.k = "fermi"
\* 'magnetization (x)' in line
HasMagHeader(l) == l.k = "mheader"
\* 'reached required accuracy' in line
HasAccuracy(l) == l.k = "acc"
\* 'ITERATION' in line and 'ENERGY' in line
HasIteration(l) == l.k = "iter"
\* 'DAV:' in line or 'RMM:' in line
HasElectronicStep(l) == l.k = "dav"
\* a faulty test of the ionic step: the header test of _parse_forces
HasForceUnit(l) == l.k \in {"fheader", "fhalf"}
\* 'POSITION' in line and 'TOTAL-FORCE' in line
HasPositionForce(l) == l.k \in {"fheader", "posonly"}

----------------------------------------------------------------------------
(* EnergyAnalyzer: the reducers of _parse_outcar *)

RECURSIVE EnergyLoop(_, _, _)
EnergyLoop(lines, i, energies) ==
    IF i > Len(lines) THEN energies
    ELSE EnergyLoop(lines, i + 1,
                    IF EnergyMatch(lines[i]) THEN Append(energies, lines[i].v)
                    ELSE energies)

\* the energies without the values already seen
RECURSIVE Distinct(_)
Distinct(energies) ==
    IF energies = <<>> THEN <<>>
    ELSE LET front == Distinct(SubSeq(energies, 1, Len(energies) - 1))
         IN  IF \E k \in 1..Len(front) : front[k] = Last(energies) THEN front
             ELSE Append(front, Last(energies))

\* a faulty _parse_energies: a value found twice is kept once
ParseEnergiesDistinct(lines) ==
    LET energies == Distinct(EnergyLoop(lines, 1, <<>>))
    IN  [energies |-> energies,
         total_energy |-> IF energies # <<>> THEN Some(Last(energies)) ELSE None]

\* a faulty _parse_energies: total_energy is energies[0]
ParseEnergiesFirst(lines) ==
    LET energies == EnergyLoop(lines, 1, <<>>)
    IN  [energies |-> energies,
         total_energy |-> IF energies # <<>> THEN Some(energies[1]) ELSE None]

\* _parse_energies: the energies, then total_energy
ParseEnergies(lines) ==
    LET energies == EnergyLoop(lines, 1, <<>>)
    IN  [energies |-> energies,
         total_energy |-> IF energies # <<>> THEN Some(Last(energies)) ELSE None]

\* a faulty row test: six fields are enough, an unreadable field reads as 0
ForceRowParsesWide(parts) == Len(parts) >= 6

\* float(parts[3]), float(parts[4]), float(parts[5]) all succeed
ForceRowParses(parts) ==
    Len(parts) >= 6 /\ parts[4].num /\ parts[5].num /\ parts[6].num

RECURSIVE ForcesLoop(_, _, _, _, _)
ForcesLoop(lines, i, in_forces_section, current_forces, forces) ==
    IF i > Len(lines) THEN forces
    ELSE LET line == lines[i]
             parts == Split(line)
         IN  IF HasForceHeader(line)
             THEN ForcesLoop(lines, i + 1, TRUE, <<>>, forces)
             ELSE IF ~in_forces_section
             THEN ForcesLoop(lines, i + 1, FALSE, current_forces, forces)
             ELSE IF EndsBlock(line)
             THEN ForcesLoop(lines, i + 1, FALSE, <<>>,
                             IF current_forces # <<>> THEN Append(forces, current_forces)
                             ELSE forces)
             ELSE IF ForceRowParses(parts)
             THEN ForcesLoop(lines, i + 1, TRUE,
                             Append(current_forces, <<parts[4].v, parts[5].v, parts[6].v>>),
                             forces)
             ELSE ForcesLoop(lines, i + 1, TRUE, current_forces, forces)

\* a faulty _parse_forces: the scan starts inside a block
ParseForcesInBlock(lines) == ForcesLoop(lines, 1, TRUE, <<>>, <<>>)

\* a faulty _parse_forces: only the snapshot of the last block is kept
ParseForcesLastOnly(lines) ==
    LET forces == ForcesLoop(lines, 1, FALSE, <<>>, <<>>)
    IN  IF forces = <<>> THEN <<>> ELSE <<Last(forces)>>

\* _parse_forces
ParseForces(lines) == ForcesLoop(lines, 1, FALSE, <<>>, <<>>)

\* range(i+1, min(i+10, len(lines))) looks at the lines before index i + StressWindow
StressWindow == 10
\* a batch shorter than this gets no extension: a new batch is appended instead
StressBatchLen == 6

\* the three groups of stress_pattern
StressValues(l) == <<l.v, l.v, l.v>>

\* the body of the inner loop: one matched row
StressAdd(stress, stress_values) ==
    IF Len(stress) = 0 \/ Len(Last(stress)) < StressBatchLen
    THEN Append(stress, stress_values)
    ELSE [stress EXCEPT ![Len(stress)] = @ \o stress_values]

RECURSIVE StressWindowLoop(_, _, _, _)
StressWindowLoop(lines, j, stop, stress) ==
    IF j >= stop THEN stress
    ELSE StressWindowLoop(lines, j + 1, stop,
                          IF StressMatch(lines[j]) THEN StressAdd(stress, StressValues(lines[j]))
                          ELSE stress)

RECURSIVE StressLoop(_, _, _)
StressLoop(lines, i, stress) ==
    IF i > Len(lines) THEN stress
    ELSE StressLoop(lines, i + 1,
                    IF HasStressHeader(lines[i])
                    THEN StressWindowLoop(lines, i + 1,
                                          Min(i + StressWindow, Len(lines) + 1), stress)
                    ELSE stress)

\* _parse_stress (lines[i] here is lines[i-1] there)
ParseStress(lines) == StressLoop(lines, 1, <<>>)

RECURSIVE FermiLoop(_, _, _)
FermiLoop(lines, i, fermi) ==
    IF i > Len(lines) THEN fermi
    ELSE FermiLoop(lines, i + 1, IF FermiMatch(lines[i]) THEN Some(lines[i].v) ELSE fermi)

\* _parse_fermi_energy
ParseFermiEnergy(lines) == FermiLoop(lines, 1, None)

\* float(parts[4]) succeeds
MomentRowParses(parts) == Len(parts) >= 5 /\ parts[5].num

RECURSIVE MagLoop(_, _, _, _, _)
MagLoop(lines, i, in_mag_section, current_moments, moments) ==
    IF i > Len(lines) THEN moments
    ELSE LET line == lines[i]
             parts == Split(line)
         IN  IF HasMagHeader(line)
             THEN MagLoop(lines, i + 1, TRUE, <<>>, moments)
             ELSE IF ~in_mag_section
             THEN MagLoop(lines, i + 1, FALSE, current_moments, moments)
             ELSE IF EndsBlock(line)
             THEN MagLoop(lines, i + 1, FALSE, <<>>,
                          IF current_moments # <<>> THEN Append(moments, current_moments)
                          ELSE moments)
             ELSE IF MomentRowParses(parts)
             THEN MagLoop(lines, i + 1, TRUE, Append(current_moments, parts[5].v), moments)
             ELSE MagLoop(lines, i + 1, TRUE, current_moments, moments)

\* a faulty _parse_magnetic_moments: a block still open at the end of the file is
\* flushed as if a blank line followed it
ParseMagneticMomentsFlushed(lines) ==
    MagLoop(lines \o <<Line("blank", 0)>>, 1, FALSE, <<>>, <<>>)

\* _parse_magnetic_moments
ParseMagneticMoments(lines) == MagLoop(lines, 1, FALSE, <<>>, <<>>)

RECURSIVE TimingLoop(_, _, _)
TimingLoop(lines, i, timing) ==
    IF i > Len(lines) THEN timing
    ELSE TimingLoop(lines, i + 1,
                    CASE lines[i].k = "cpu" ->
                           [timing EXCEPT !.total_cpu_time = Some(lines[i].v)]
                      [] lines[i].k = "elapsed" ->
                           [timing EXCEPT !.elapsed_time = Some(lines[i].v)]
                      [] OTHER -> timing)

\* _parse_timing: the dict, a key that is not in it being None here
ParseTiming(lines) == TimingLoop(lines, 1, [total_cpu_time |-> None, elapsed_time |-> None])

\* a faulty step loop: every ionic step appends its count, zero included
RECURSIVE StepLoopEvery(_, _, _, _, _)
StepLoopEvery(lines, i, ionic_steps, electronic_steps, current_electronic) ==
    IF i > Len(lines)
    THEN [ionic_steps |-> ionic_steps, electronic_steps |-> electronic_steps]
    ELSE LET line == lines[i]
         IN  IF HasIteration(line)
             THEN StepLoopEvery(lines, i + 1, ionic_steps, electronic_steps, 0)
             ELSE IF HasElectronicStep(line)
             THEN StepLoopEvery(lines, i + 1, ionic_steps, electronic_steps,
                                current_electronic + 1)
             ELSE IF HasPositionForce(line)
             THEN StepLoopEvery(lines, i + 1, ionic_steps + 1,
                                Append(electronic_steps, current_electronic), 0)
             ELSE StepLoopEvery(lines, i + 1, ionic_steps, electronic_steps,
                                current_electronic)

RECURSIVE StepLoop(_, _, _, _, _)
StepLoop(lines, i, ionic_steps, electronic_steps, current_electronic) ==
    IF i > Len(lines)
    THEN [ionic_steps |-> ionic_steps, electronic_steps |-> electronic_steps]
    ELSE LET line == lines[i]
         IN  IF HasIteration(line)
             THEN StepLoop(lines, i + 1, ionic_steps, electronic_steps, 0)
             ELSE IF HasElectronicStep(line)
             THEN StepLoop(lines, i + 1, ionic_steps, electronic_steps, current_electronic + 1)
             ELSE IF HasPositionForce(line)
             THEN IF current_electronic > 0
                  THEN StepLoop(lines, i + 1, ionic_steps + 1,
                                Append(electronic_steps, current_electronic), 0)
                  ELSE StepLoop(lines, i + 1, ionic_steps + 1, electronic_steps,
                                current_electronic)
             ELSE StepLoop(lines, i + 1, ionic_steps, electronic_steps, current_electronic)

\* a faulty _check_convergence: the marker counts only when an energy was found
CheckConvergenceWithEnergy(lines) ==
    LET steps == StepLoop(lines, 1, 0, <<>>, 0)
    IN  [convergence |-> /\ \E i \in 1..Len(lines) : HasAccuracy(lines[i])
                         /\ ParseEnergies(lines).energies # <<>>,
         ionic_steps |-> steps.ionic_steps,
         electronic_steps |-> steps.electronic_steps]

\* _check_convergence: the accuracy marker, then the step counts
CheckConvergence(lines) ==
    LET steps == StepLoop(lines, 1, 0, <<>>, 0)
    IN  [convergence |-> \E i \in 1..Len(lines) : HasAccuracy(lines[i]),
         ionic_steps |-> steps.ionic_steps,
         electronic_steps |-> steps.electronic_steps]

\* _parse_outcar: the record the seven reducers leave
ParseOutcar(lines) ==
    LET e == ParseEnergies(lines)
        c == CheckConvergence(lines)
    IN  [energies |-> e.energies,
         forces |-> ParseForces(lines),
         stress |-> ParseStress(lines),
         fermi_energy |-> ParseFermiEnergy(lines),
         total_energy |-> e.total_energy,
         convergence |-> c.convergence,
         ionic_steps |-> c.ionic_steps,
         electronic_steps |-> c.electronic_steps,
         timing |-> ParseTiming(lines),
         magnetic_moments |-> ParseMagneticMoments(lines)]

\* the dict _parse_outcar starts from
EmptyRecord ==
    [energies |-> <<>>, forces |-> <<>>, stress |-> <<>>, fermi_energy |-> None,
     total_energy |-> None, convergence |-> FALSE, ionic_steps |-> 0,
     electronic_steps |-> <<>>,
     timing |-> [total_cpu_time |-> None, elapsed_time |-> None],
     magnetic_moments |-> <<>>]

----------------------------------------------------------------------------
(* EnergyAnalyzer: the instance and its operations.  self is                *)
(* [data, is_loaded, parses]; an operation gives the instance it leaves and *)
(* the exception it raises or the value it returns.                         *)

Return(self, value) == [self |-> self, exc |-> "none", val |-> value]
Raise(self, exception) == [self |-> self, exc |-> exception, val |-> None]

\* EnergyAnalyzer.__init__
E_init == [data |-> None, is_loaded |-> FALSE, parses |-> 0]

\* a faulty load_data: no existence test, open() fails on the missing file
E_load_data_unchecked(self, exists, lines) ==
    IF ~exists
    THEN Raise(self, "FileNotFoundError")
    ELSE LET data == ParseOutcar(lines)
         IN  Return([data |-> Some(data), is_loaded |-> TRUE, parses |-> self.parses + 1],
                    data)

\* a faulty load_data: a missing file resets the instance before the error is raised
E_load_data_reset(self, exists, lines) ==
    IF ~exists
    THEN Raise([data |-> None, is_loaded |-> self.is_loaded, parses |-> self.parses],
               "FileFormatError")
    ELSE LET data == ParseOutcar(lines)
         IN  Return([data |-> Some(data), is_loaded |-> TRUE, parses |-> self.parses + 1],
                    data)

\* EnergyAnalyzer.load_data on the file (exists, lines)
E_load_data(self, exists, lines) ==
    IF ~exists
    THEN Raise(self, "FileFormatError")
    ELSE LET data == ParseOutcar(lines)
         IN  Return([data |-> Some(data), is_loaded |-> TRUE, parses |-> self.parses + 1],
                    data)

\* a faulty guard: load_data runs whatever _is_loaded says
E_loaded_always(self, exists, lines) ==
    IF ~exists
    THEN Raise(self, "FileFormatError")
    ELSE LET data == ParseOutcar(lines)
         IN  Return([data |-> Some(data), is_loaded |-> TRUE, parses |-> self.parses + 1],
                    data)

\* "if not self._is_loaded: self.load_data()", then the rest of the method
E_loaded(self, exists, lines) ==
    IF ~self.is_loaded THEN E_load_data(self, exists, lines) ELSE Return(self, None)

\* forces[-1] if forces else None
FinalOf(snapshots) == IF snapshots # <<>> THEN Some(Last(snapshots)) ELSE None

\* a faulty energy_change: abs(energies[-1] - energies[0])
EnergyChangeOverall(energies) ==
    IF Len(energies) >= 2
    THEN Some(Abs(energies[Len(energies)] - energies[1]))
    ELSE None

\* abs(energies[-1] - energies[-2]) when len(energies) >= 2
EnergyChange(energies) ==
    IF Len(energies) >= 2
    THEN Some(Abs(energies[Len(energies)] - energies[Len(energies) - 1]))
    ELSE None

SumSq(vec) == vec[1] * vec[1] + vec[2] * vec[2] + vec[3] * vec[3]

RECURSIVE MaxSumSq(_)
MaxSumSq(final_forces) ==
    IF Len(final_forces) = 1 THEN SumSq(final_forces[1])
    ELSE LET rest == MaxSumSq(Tail(final_forces))
             first == SumSq(final_forces[1])
         IN  IF first > rest THEN first ELSE rest

RECURSIVE TotalSumSq(_)
TotalSumSq(final_forces) ==
    IF final_forces = <<>> THEN 0
    ELSE SumSq(final_forces[1]) + TotalSumSq(Tail(final_forces))

\* the dict analyze_convergence builds from the record.  max_force is kept as its
\* square and rms_force as <<sum of squares, number of atoms>>: the roots are not taken
ConvergenceAnalysis(data) ==
    [is_converged |-> data.convergence,
     ionic_steps |-> data.ionic_steps,
     electronic_steps |-> data.electronic_steps,
     energy_change |-> EnergyChange(data.energies),
     max_force |-> IF data.forces # <<>> THEN Some(MaxSumSq(Last(data.forces))) ELSE None,
     rms_force |-> IF data.forces # <<>>
                   THEN Some(<<TotalSumSq(Last(data.forces)), Len(Last(data.forces))>>)
                   ELSE None]

E_Queries == {"total_energy", "fermi_energy", "is_converged", "get_energy_evolution",
              "get_final_forces", "get_final_stress", "analyze_convergence"}

\* what the query reads from the record once it is loaded
E_answer(q, data) ==
    CASE q = "total_energy" -> data.total_energy
      [] q = "fermi_energy" -> data.fermi_energy
      [] q = "is_converged" -> data.convergence
      [] q = "get_energy_evolution" -> data.energies
      [] q = "get_final_forces" -> FinalOf(data.forces)
      [] q = "get_final_stress" -> FinalOf(data.stress)
      [] q = "analyze_convergence" -> ConvergenceAnalysis(data)

\* a query operation: load on first use, then answer from self._data
E_query(q, self, exists, lines) ==
    LET loaded == E_loaded(self, exists, lines)
    IN  IF loaded.exc # "none" THEN loaded
        ELSE Return(loaded.self, E_answer(q, loaded.self.data[1]))

----------------------------------------------------------------------------
(* DOSCAR lines: a line is the sequence of its fields (line.split()) *)

I(x) == [t |-> "int", v |-> x]       \* digits only: int() and float() accept it
F(x) == [t |-> "float", v |-> x]     \* a decimal: float() accepts it, int() does not
Word == [t |-> "word", v |-> 0]      \* neither accepts it

IntOk(field) == field.t = "int"
FloatOk(field) == field.t \in {"int", "float"}
\* float(field), in thousandths
FloatOf(field) == IF field.t = "int" THEN field.v * 1000 ELSE field.v

Ok(value) == [exc |-> "none", val |-> value]
Err(exception) == [exc |-> exception, val |-> None]

\* _parse_header: lines[0] field 0, lines[5] fields 2 and 3, the field count of lines[4]
ParseHeader(lines) ==
    IF Len(lines[1]) < 1 THEN Err("IndexError")
    ELSE IF ~IntOk(lines[1][1]) THEN Err("ValueError")
    ELSE IF Len(lines[6]) < 3 THEN Err("IndexError")
    ELSE IF ~IntOk(lines[6][3]) THEN Err("ValueError")
    ELSE IF Len(lines[6]) < 4 THEN Err("IndexError")
    ELSE IF ~FloatOk(lines[6][4]) THEN Err("ValueError")
    ELSE Ok([natoms |-> lines[1][1].v,
             nedos |-> lines[6][3].v,
             efermi |-> FloatOf(lines[6][4]),
             ispin |-> IF Len(lines[5]) > 4 THEN 2 ELSE 1])

\* the dict total_dos starts as
EmptyTotalDos(ispin) ==
    IF ispin = 2 THEN [type |-> "dict", up |-> <<>>, down |-> <<>>]
    ELSE [type |-> "dict", total |-> <<>>]

\* the loop of _parse_dos_data from line i (lines[i-1] there) up to end_line
RECURSIVE DosLoop(_, _, _, _, _, _)
DosLoop(lines, i, end_line, ispin, energies, total_dos) ==
    IF i > end_line \/ i > Len(lines)
    THEN Ok([energies |-> energies, total_dos |-> total_dos])
    ELSE LET parts == lines[i]
         IN  IF Len(parts) < 2
             THEN DosLoop(lines, i + 1, end_line, ispin, energies, total_dos)
             ELSE IF ~FloatOk(parts[1]) \/ ~FloatOk(parts[2]) THEN Err("ValueError")
             ELSE IF ispin = 2
             THEN IF Len(parts) > 2 /\ ~FloatOk(parts[3]) THEN Err("ValueError")
                  ELSE DosLoop(lines, i + 1, end_line, ispin,
                               Append(energies, FloatOf(parts[1])),
                               [total_dos EXCEPT
                                  !.up = Append(@, FloatOf(parts[2])),
                                  !.down = Append(@, IF Len(parts) > 2
                                                     THEN FloatOf(parts[3]) ELSE 0)])
             ELSE DosLoop(lines, i + 1, end_line, ispin,
                          Append(energies, FloatOf(parts[1])),
                          [total_dos EXCEPT !.total = Append(@, FloatOf(parts[2]))])

\* the first body line: start_line = 6 there, line 7 of the file
DosStartLine == 7

\* a faulty _parse_dos_data: the loop reads one line past end_line
ParseDosDataOneMore(lines, header) ==
    With(DosLoop(lines, DosStartLine, DosStartLine + header.nedos, header.ispin,
                 <<>>, EmptyTotalDos(header.ispin)),
         LAMBDA body :
            IF body.exc # "none" THEN body
            ELSE Ok([energies |-> body.val.energies,
                     total_dos |-> body.val.total_dos,
                     partial_dos |-> <<>>]))

\* _parse_dos_data: energies (an ndarray), total_dos (a dict of lists), partial_dos
ParseDosData(lines, header) ==
    With(DosLoop(lines, DosStartLine, DosStartLine + header.nedos - 1, header.ispin,
                 <<>>, EmptyTotalDos(header.ispin)),
         LAMBDA body :
            IF body.exc # "none" THEN body
            ELSE Ok([energies |-> body.val.energies,
                     total_dos |-> body.val.total_dos,
                     partial_dos |-> <<>>]))

\* a DOSCAR shorter than this has no header
MinDoscarLines == 6

\* a faulty _parse_doscar: no length test, the header is read from whatever is there
ParseDoscarUnchecked(lines) ==
    IF Len(lines) = 0 THEN Err("IndexError")
    ELSE IF Len(lines) < MinDoscarLines
    THEN (IF Len(lines[1]) < 1 THEN Err("IndexError")
          ELSE IF ~IntOk(lines[1][1]) THEN Err("ValueError")
          ELSE Err("IndexError"))
    ELSE With(ParseHeader(lines), LAMBDA header :
            IF header.exc # "none" THEN header
            ELSE With(ParseDosData(lines, header.val), LAMBDA dos :
                    IF dos.exc # "none" THEN dos
                    ELSE Ok([header |-> header.val,
                             total_dos |-> dos.val.total_dos,
                             partial_dos |-> dos.val.partial_dos,
                             energies |-> dos.val.energies,
                             is_spin_polarized |-> header.val.ispin = 2])))

\* _parse_doscar
ParseDoscar(lines) ==
    IF Len(lines) < MinDoscarLines THEN Err("FileFormatError")
    ELSE With(ParseHeader(lines), LAMBDA header :
            IF header.exc # "none" THEN header
            ELSE With(ParseDosData(lines, header.val), LAMBDA dos :
                    IF dos.exc # "none" THEN dos
                    ELSE Ok([header |-> header.val,
                             total_dos |-> dos.val.total_dos,
                             partial_dos |-> dos.val.partial_dos,
                             energies |-> dos.val.energies,
                             is_spin_polarized |-> header.val.ispin = 2])))

----------------------------------------------------------------------------
(* DOSAnalyzer: the instance and its operations.  self is                   *)
(* [dos_data, fermi_energy, is_loaded]; dir is the calculation directory    *)
(* [outcar_exists, outcar, doscar_exists, doscar].                          *)

\* DOSAnalyzer.__init__
D_init == [dos_data |-> None, fermi_energy |-> None, is_loaded |-> FALSE]

\* a faulty load_data: the fermi energy is the EFERMI field of the DOSCAR header
D_load_data_header(self, dir) ==
    IF ~dir.doscar_exists
    THEN Raise(self, "FileFormatError")
    ELSE With(ParseDoscar(dir.doscar), LAMBDA parsed :
            IF parsed.exc # "none"
            THEN Raise(self, parsed.exc)
            ELSE Return([dos_data |-> Some(parsed.val),
                         fermi_energy |-> Some(parsed.val.header.efermi),
                         is_loaded |-> TRUE],
                        parsed.val))

\* DOSAnalyzer.load_data
D_load_data(self, dir) ==
    IF ~dir.doscar_exists
    THEN Raise(self, "FileFormatError")
    ELSE With(ParseDoscar(dir.doscar), LAMBDA parsed :
            IF parsed.exc # "none"
            THEN Raise(self, parsed.exc)
            ELSE Return([dos_data |-> Some(parsed.val),
                         fermi_energy |->
                            IF dir.outcar_exists
                            THEN E_load_data(E_init, TRUE, dir.outcar).val.fermi_energy
                            ELSE self.fermi_energy,
                         is_loaded |-> TRUE],
                        parsed.val))

\* "if not self.dos_data: self.load_data()": the instance the rest of the method runs
\* on, or the exception of the load
D_loaded(self, dir) ==
    IF self.dos_data = None
    THEN With(D_load_data(self, dir), LAMBDA loaded :
            IF loaded.exc # "none" THEN loaded ELSE Return(loaded.self, None))
    ELSE Return(self, None)

\* energies - self.fermi_energy
RelEnergies(energies, fermi) == [i \in 1..Len(energies) |-> energies[i] - fermi]

\* np.argmin(np.abs(xs)): the first index of the least magnitude
ArgMinAbs(xs) ==
    CHOOSE i \in 1..Len(xs) :
        /\ \A j \in 1..Len(xs) : Abs(xs[i]) <= Abs(xs[j])
        /\ \A j \in 1..(i - 1) : Abs(xs[j]) > Abs(xs[i])

\* hasattr(total_dos, 'shape'): an ndarray has it, the dict _parse_dos_data builds has not
HasShape(total_dos) == total_dos.type = "ndarray"

\* total_dos[i] if len(total_dos.shape) == 1 else np.sum(total_dos[i])
DensityAt(total_dos, i) ==
    IF total_dos.ndim = 1 THEN total_dos.rows[i]
    ELSE total_dos.rows[i][1] + total_dos.rows[i][2]

\* the indices a boolean mask keeps, in order, from index i on
RECURSIVE Masked(_, _)
Masked(mask, i) ==
    IF i > Len(mask) THEN <<>>
    ELSE (IF mask[i] THEN <<i>> ELSE <<>>) \o Masked(mask, i + 1)

\* np.trapz(ys, xs); the sample spacing of a DOSCAR here is even, so the halves are exact
RECURSIVE Trapz(_, _)
Trapz(ys, xs) ==
    IF Len(xs) < 2 THEN 0
    ELSE ((xs[2] - xs[1]) * (ys[1] + ys[2])) \div 2 + Trapz(Tail(ys), Tail(xs))

\* get_dos_at_fermi after the load
DosAtFermi(me) ==
    LET dos == me.dos_data[1]
    IN  IF me.fermi_energy = None THEN Return(me, 0)
        ELSE IF dos.energies = <<>> THEN Raise(me, "ValueError")
        ELSE IF ~HasShape(dos.total_dos) THEN Raise(me, "AttributeError")
        ELSE Return(me, DensityAt(dos.total_dos,
                                  ArgMinAbs(RelEnergies(dos.energies, me.fermi_energy[1]))))

\* get_dos_at_fermi
D_get_dos_at_fermi(self, dir) ==
    With(D_loaded(self, dir), LAMBDA loaded :
        IF loaded.exc # "none" THEN loaded ELSE DosAtFermi(loaded.self))

\* rel_energies[mask]: the indices in the closed window
WindowMask(rel_energies, energy_range) ==
    Masked([i \in 1..Len(rel_energies) |->
               /\ rel_energies[i] >= energy_range[1]
               /\ rel_energies[i] <= energy_range[2]], 1)

\* integrate_dos after the load
IntegrateDos(me, energy_range) ==
    LET dos == me.dos_data[1]
    IN  IF me.fermi_energy = None THEN Return(me, 0)
        ELSE With(RelEnergies(dos.energies, me.fermi_energy[1]), LAMBDA rel_energies :
             With(WindowMask(rel_energies, energy_range), LAMBDA mask :
                IF mask = <<>> THEN Return(me, 0)
                ELSE IF ~HasShape(dos.total_dos) THEN Raise(me, "AttributeError")
                ELSE Return(me,
                            Trapz([k \in 1..Len(mask) |-> DensityAt(dos.total_dos, mask[k])],
                                  [k \in 1..Len(mask) |-> rel_energies[mask[k]]]))))

\* integrate_dos(energy_range)
D_integrate_dos(self, dir, energy_range) ==
    With(D_loaded(self, dir), LAMBDA loaded :
        IF loaded.exc # "none" THEN loaded ELSE IntegrateDos(loaded.self, energy_range))

\* fermi_dos < 0.01, vb_dos > 0.01, cb_dos > 0.01, in thousandths
DosThreshold == 10

SeqMax(xs, idx) == CHOOSE m \in {xs[i] : i \in idx} : \A i \in idx : xs[i] <= m
SeqMin(xs, idx) == CHOOSE m \in {xs[i] : i \in idx} : \A i \in idx : xs[i] >= m

\* get_band_gap after the load
BandGap(me) ==
    LET dos == me.dos_data[1]
        rel_energies == RelEnergies(dos.energies, me.fermi_energy[1])
        fermi_idx == ArgMinAbs(rel_energies)
        all == 1..Len(rel_energies)
        vb_significant ==
            {i \in all : rel_energies[i] < 0 /\ DensityAt(dos.total_dos, i) > DosThreshold}
        cb_significant ==
            {i \in all : rel_energies[i] > 0 /\ DensityAt(dos.total_dos, i) > DosThreshold}
    IN  IF me.fermi_energy = None THEN Return(me, None)
        ELSE IF dos.energies = <<>> THEN Raise(me, "ValueError")
        ELSE IF ~HasShape(dos.total_dos) THEN Raise(me, "AttributeError")
        ELSE IF /\ DensityAt(dos.total_dos, fermi_idx) < DosThreshold
                /\ vb_significant # {}
                /\ cb_significant # {}
        THEN Return(me, Some(SeqMin(rel_energies, cb_significant)
                             - SeqMax(rel_energies, vb_significant)))
        ELSE Return(me, Some(0))

\* get_band_gap
D_get_band_gap(self, dir) ==
    With(D_loaded(self, dir), LAMBDA loaded :
        IF loaded.exc # "none" THEN loaded ELSE BandGap(loaded.self))

\* analyze_electronic_structure after the load: the calls the dict literal makes, in
\* its order; the first to raise ends it
AnalyzeElectronicStructure(me) ==
    With(BandGap(me), LAMBDA band_gap :
      IF band_gap.exc # "none" THEN band_gap
      ELSE With(DosAtFermi(me), LAMBDA dos_at_fermi :
        IF dos_at_fermi.exc # "none" THEN dos_at_fermi
        ELSE With(IntegrateDos(me, <<-20000, 0>>), LAMBDA valence :
          IF valence.exc # "none" THEN valence
          ELSE With(IntegrateDos(me, <<-20000, 20000>>), LAMBDA total :
            IF total.exc # "none" THEN total
            ELSE Return(me, [band_gap |-> band_gap.val,
                             dos_at_fermi |-> dos_at_fermi.val,
                             fermi_energy |-> me.fermi_energy,
                             is_metal |-> IF band_gap.val # None
                                          THEN Some(band_gap.val = Some(0)) ELSE None,
                             valence_electrons |-> valence.val,
                             total_electrons |-> total.val,
                             is_spin_polarized |-> me.dos_data[1].is_spin_polarized])))))

\* analyze_electronic_structure
D_analyze_electronic_structure(self, dir) ==
    With(D_loaded(self, dir), LAMBDA loaded :
        IF loaded.exc # "none" THEN loaded ELSE AnalyzeElectronicStructure(loaded.self))

----------------------------------------------------------------------------
(* NEBAnalyzer, MDAnalyzer, BandAnalyzer.  Each holds its own EnergyAnalyzer *)
(* (self.energy_analyzer) and the record it loaded (self.outcar_data); me is *)
(* [c |-> [kind, outcar_data, fermi_energy], e |-> the EnergyAnalyzer].      *)

\* __init__ of the three classes
C_init(kind) ==
    [kind |-> kind, outcar_data |-> None, fermi_energy |-> None, eigenvalues |-> None]

\* a faulty BandAnalyzer.load_data: the eigenvalues are read from the energies of
\* the record
C_load_data_eigen(me, exists, lines) ==
    With(E_load_data(me.e, exists, lines), LAMBDA r :
        IF r.exc # "none" THEN Raise(me, r.exc)
        ELSE Return([c |-> [me.c EXCEPT
                              !.outcar_data = Some(r.val),
                              !.fermi_energy = IF me.c.kind = "band"
                                               THEN r.val.fermi_energy ELSE @,
                              !.eigenvalues = IF me.c.kind = "band"
                                              THEN Some(r.val.energies) ELSE @],
                     e |-> r.self],
                    None))

\* load_data of the three classes: the record of the EnergyAnalyzer; BandAnalyzer
\* also reads fermi_energy from it and sets eigenvalues to None
C_load_data(me, exists, lines) ==
    With(E_load_data(me.e, exists, lines), LAMBDA r :
        IF r.exc # "none" THEN Raise(me, r.exc)
        ELSE Return([c |-> [me.c EXCEPT
                              !.outcar_data = Some(r.val),
                              !.fermi_energy = IF me.c.kind = "band"
                                               THEN r.val.fermi_energy ELSE @,
                              !.eigenvalues = None],
                     e |-> r.self],
                    None))

\* "if not self.outcar_data: self.load_data()"
C_loaded(me, exists, lines) ==
    IF me.c.outcar_data # None THEN Return(me, None) ELSE C_load_data(me, exists, lines)

RECURSIVE Sum(_)
Sum(xs) == IF xs = <<>> THEN 0 ELSE Head(xs) + Sum(Tail(xs))

\* max(xs) of a non-empty sequence
Max(xs) == CHOOSE m \in {xs[i] : i \in 1..Len(xs)} : \A i \in 1..Len(xs) : xs[i] <= m

\* a faulty extract_neb_energies: every number of the last matching line is kept
ExtractNebEnergiesKeepZero(exists, lines) ==
    LET neb_energy_lines == {i \in 1..Len(lines) : lines[i].k = "neb"}
    IN  IF ~exists \/ neb_energy_lines = {} THEN <<>>
        ELSE lines[CHOOSE i \in neb_energy_lines : \A j \in neb_energy_lines : j <= i].v

\* extract_neb_energies: the numbers of the last NEB energy line that are not zero;
\* any failure, a missing file included, gives the empty list
ExtractNebEnergies(exists, lines) ==
    LET neb_energy_lines == {i \in 1..Len(lines) : lines[i].k = "neb"}
    IN  IF ~exists \/ neb_energy_lines = {} THEN <<>>
        ELSE LET last_line == lines[CHOOSE i \in neb_energy_lines :
                                        \A j \in neb_energy_lines : j <= i]
             IN  SelectSeq(last_line.v, LAMBDA x : x # 0)

\* calculate_activation_energy
ActivationEnergy(neb_energies) ==
    IF Len(neb_energies) < 3 THEN None
    ELSE Some(Max(neb_energies) - neb_energies[1])

\* calculate_reaction_energy
ReactionEnergy(neb_energies) ==
    IF Len(neb_energies) < 2 THEN None
    ELSE Some(Last(neb_energies) - neb_energies[1])

\* find_transition_state_index: int(np.argmax(neb_energies)), counted from 0
TransitionStateIndex(neb_energies) ==
    IF neb_energies = <<>> THEN None
    ELSE Some((CHOOSE i \in 1..Len(neb_energies) :
                  /\ neb_energies[i] = Max(neb_energies)
                  /\ \A j \in 1..(i - 1) : neb_energies[j] # Max(neb_energies)) - 1)

\* 0.1 eV, the threshold of _classify_reaction
ReactionThreshold == 100

\* a faulty _classify_reaction: the bounds -0.1 and 0.1 belong to exothermic and
\* endothermic
ClassifyReactionClosed(analysis) ==
    IF analysis.reaction_energy = None \/ analysis.activation_energy = None THEN "unknown"
    ELSE IF Abs(analysis.reaction_energy[1]) < ReactionThreshold THEN "isomerization"
    ELSE IF analysis.reaction_energy[1] <= -ReactionThreshold THEN "exothermic"
    ELSE IF analysis.reaction_energy[1] >= ReactionThreshold THEN "endothermic"
    ELSE "thermoneutral"

\* _classify_reaction on the keys reaction_energy and activation_energy
ClassifyReaction(analysis) ==
    IF analysis.reaction_energy = None \/ analysis.activation_energy = None THEN "unknown"
    ELSE IF Abs(analysis.reaction_energy[1]) < ReactionThreshold THEN "isomerization"
    ELSE IF analysis.reaction_energy[1] < -ReactionThreshold THEN "exothermic"
    ELSE IF analysis.reaction_energy[1] > ReactionThreshold THEN "endothermic"
    ELSE "thermoneutral"

\* the keys analyze_transition_state fills from the path; a key it does not set is
\* None.  reaction_coordinate i / (n_images - 1) is kept as <<i, n_images - 1>>
PathAnalysis(neb_energies) ==
    LET activation_energy == ActivationEnergy(neb_energies)
        reaction_energy == ReactionEnergy(neb_energies)
        ts_index == TransitionStateIndex(neb_energies)
    IN  IF neb_energies = <<>>
        THEN [neb_energies |-> neb_energies, activation_energy |-> None,
              reaction_energy |-> None, transition_state_index |-> None,
              transition_state_energy |-> None, reaction_coordinate |-> None,
              forward_barrier |-> None, reverse_barrier |-> None]
        ELSE [neb_energies |-> neb_energies,
              activation_energy |-> activation_energy,
              reaction_energy |-> reaction_energy,
              transition_state_index |-> ts_index,
              transition_state_energy |-> Some(neb_energies[ts_index[1] + 1]),
              reaction_coordinate |->
                  Some([i \in 1..Len(neb_energies) |-> <<i - 1, Len(neb_energies) - 1>>]),
              forward_barrier |-> activation_energy,
              reverse_barrier |->
                  IF reaction_energy # None /\ activation_energy # None
                  THEN Some(activation_energy[1] - reaction_energy[1]) ELSE None]

\* analyze_neb_convergence after the load: converged and ionic_steps are read from the
\* record, then "self.outcar" is evaluated and NEBAnalyzer has no such attribute
NebConvergence(me) ==
    LET convergence_info == [converged |-> me.c.outcar_data[1].convergence,
                             ionic_steps |-> Len(me.c.outcar_data[1].energies)]
    IN  Raise(me, "AttributeError")

\* NEBAnalyzer.analyze_transition_state
N_analyze_transition_state(me, exists, lines) ==
    With(C_loaded(me, exists, lines), LAMBDA loaded :
      IF loaded.exc # "none" THEN loaded
      ELSE With(ExtractNebEnergies(exists, lines), LAMBDA neb_energies :
        IF Len(neb_energies) = 1 THEN Raise(loaded.self, "ZeroDivisionError")
        ELSE With(NebConvergence(loaded.self), LAMBDA convergence_analysis :
          IF convergence_analysis.exc # "none" THEN convergence_analysis
          ELSE Return(loaded.self,
                      [path |-> PathAnalysis(neb_energies),
                       convergence |-> convergence_analysis.val,
                       reaction_type |-> ClassifyReaction(PathAnalysis(neb_energies))]))))

\* len(energies) < 10
MinDriftSamples == 10

\* a faulty calculate_energy_drift: ten samples are still too few
EnergyDriftLate(energies) ==
    LET n == Len(energies)
        steps == [i \in 1..n |-> i - 1]
    IN  IF n <= MinDriftSamples THEN None
        ELSE Some([num |-> n * Sum([i \in 1..n |-> steps[i] * energies[i]])
                           - Sum(steps) * Sum(energies),
                   den |-> n * Sum([i \in 1..n |-> steps[i] * steps[i]])
                           - Sum(steps) * Sum(steps)])

\* calculate_energy_drift: the slope of the least-squares line through (i, energies[i]),
\* i from 0, kept as the fraction [num, den]
EnergyDrift(energies) ==
    LET n == Len(energies)
        steps == [i \in 1..n |-> i - 1]
    IN  IF n < MinDriftSamples THEN None
        ELSE Some([num |-> n * Sum([i \in 1..n |-> steps[i] * energies[i]])
                           - Sum(steps) * Sum(energies),
                   den |-> n * Sum([i \in 1..n |-> steps[i] * steps[i]])
                           - Sum(steps) * Sum(steps)])

\* MDAnalyzer.analyze_trajectory: after the load "self.outcar.ionic_steps" is
\* evaluated and MDAnalyzer has no attribute outcar
M_analyze_trajectory(me, exists, lines) ==
    With(C_loaded(me, exists, lines), LAMBDA loaded :
      IF loaded.exc # "none" THEN loaded
      ELSE LET energies == loaded.self.c.outcar_data[1].energies
           IN  Raise(loaded.self, "AttributeError"))

\* band_gap < 0.01, band_gap < 0.5, band_gap < 3.0, in thousandths
GapTolerance == 10
SemimetalBelow == 500
SemiconductorBelow == 3000

\* all_eigenvalues[all_eigenvalues <= fermi], all_eigenvalues[all_eigenvalues > fermi]
Occupied(eigenvalues, fermi) ==
    {eigenvalues[i] : i \in {j \in 1..Len(eigenvalues) : eigenvalues[j] <= fermi}}
Unoccupied(eigenvalues, fermi) ==
    {eigenvalues[i] : i \in {j \in 1..Len(eigenvalues) : eigenvalues[j] > fermi}}

SetMax(S) == CHOOSE m \in S : \A x \in S : x <= m
SetMin(S) == CHOOSE m \in S : \A x \in S : x >= m

\* a faulty calculate_band_gap: a gap of exactly 0.01 is a metal's
BandGapOfClosed(eigenvalues, fermi_energy) ==
    IF eigenvalues = None \/ fermi_energy = None THEN None
    ELSE LET occupied == Occupied(eigenvalues[1], fermi_energy[1])
             unoccupied == Unoccupied(eigenvalues[1], fermi_energy[1])
         IN  IF occupied # {} /\ unoccupied # {}
             THEN IF SetMin(unoccupied) - SetMax(occupied) <= GapTolerance
                  THEN Some(0)
                  ELSE Some(SetMin(unoccupied) - SetMax(occupied))
             ELSE None

\* calculate_band_gap after the load
BandGapOf(eigenvalues, fermi_energy) ==
    IF eigenvalues = None \/ fermi_energy = None THEN None
    ELSE LET occupied == Occupied(eigenvalues[1], fermi_energy[1])
             unoccupied == Unoccupied(eigenvalues[1], fermi_energy[1])
         IN  IF occupied # {} /\ unoccupied # {}
             THEN IF SetMin(unoccupied) - SetMax(occupied) < GapTolerance
                  THEN Some(0)
                  ELSE Some(SetMin(unoccupied) - SetMax(occupied))
             ELSE None

\* get_band_extrema after the load: the dict, a key that is not in it being None
BandExtrema(eigenvalues, fermi_energy) ==
    IF eigenvalues = None \/ fermi_energy = None
    THEN [vbm |-> None, vbm_relative |-> None, cbm |-> None, cbm_relative |-> None,
          fermi_energy |-> None]
    ELSE LET occupied == Occupied(eigenvalues[1], fermi_energy[1])
             unoccupied == Unoccupied(eigenvalues[1], fermi_energy[1])
         IN  [vbm |-> IF occupied # {} THEN Some(SetMax(occupied)) ELSE None,
              vbm_relative |-> IF occupied # {}
                               THEN Some(SetMax(occupied) - fermi_energy[1]) ELSE None,
              cbm |-> IF unoccupied # {} THEN Some(SetMin(unoccupied)) ELSE None,
              cbm_relative |-> IF unoccupied # {}
                               THEN Some(SetMin(unoccupied) - fermi_energy[1]) ELSE None,
              fermi_energy |-> fermi_energy]

\* the material type analyze_electronic_structure derives from the gap
MaterialType(band_gap) ==
    IF band_gap = None THEN "unknown"
    ELSE IF band_gap[1] = 0 THEN "metal"
    ELSE IF band_gap[1] < SemimetalBelow THEN "semimetal"
    ELSE IF band_gap[1] < SemiconductorBelow THEN "semiconductor"
    ELSE "insulator"

\* BandAnalyzer.calculate_band_gap
B_calculate_band_gap(me, exists, lines) ==
    With(C_loaded(me, exists, lines), LAMBDA loaded :
      IF loaded.exc # "none" THEN loaded
      ELSE Return(loaded.self,
                  BandGapOf(loaded.self.c.eigenvalues, loaded.self.c.fermi_energy)))

\* BandAnalyzer.get_band_extrema
B_get_band_extrema(me, exists, lines) ==
    With(C_loaded(me, exists, lines), LAMBDA loaded :
      IF loaded.exc # "none" THEN loaded
      ELSE Return(loaded.self,
                  BandExtrema(loaded.self.c.eigenvalues, loaded.self.c.fermi_energy)))

\* BandAnalyzer.analyze_electronic_structure
B_analyze_electronic_structure(me, exists, lines) ==
    With(C_loaded(me, exists, lines), LAMBDA loaded :
      IF loaded.exc # "none" THEN loaded
      ELSE With(BandGapOf(loaded.self.c.eigenvalues, loaded.self.c.fermi_energy),
                LAMBDA band_gap :
             Return(loaded.self,
                    [band_gap |-> band_gap,
                     band_extrema |-> BandExtrema(loaded.self.c.eigenvalues,
                                                  loaded.self.c.fermi_energy),
                     fermi_energy |-> loaded.self.c.fermi_energy,
                     material_type |-> MaterialType(band_gap)])))

----------------------------------------------------------------------------
(* The files of the model *)

\* the energies the logs print, in 0.001 eV
EVals == {-10000, -10050, -10051}

\* the sections a solver run writes to its OUTCAR
Sections ==
    {<<Line("toten", v)>> : v \in EVals}
    \cup {<<Line("totenbad", 0)>>,
          <<Line("fheader", 0), Line("frow", 100), Line("frow", -200), Line("blank", 0)>>,
          <<Line("sheader", 0), Line("srow", 5)>>,
          <<Line("fermi", 400)>>,
          <<Line("mheader", 0), Line("mrow", 1000), Line("blank", 0)>>,
          <<Line("dav", -10000)>>,
          <<Line("acc", 0)>>,
          <<Line("cpu", 12345)>>,
          <<Line("junk", 0)>>}

\* OUTCARs made of whole sections
SectionOutcars == {Flatten(ss) : ss \in SeqsUpTo(Sections, MaxSections)}

\* single lines, for OUTCARs cut anywhere
RawLines ==
    {Line("toten", v) : v \in EVals}
    \cup {Line("totenbad", 0), Line("junk", 0), Line("blank", 0), Line("fheader", 0),
          Line("frow", 100), Line("srow", 5), Line("acc", 0)}

RawOutcars == SeqsUpTo(RawLines, MaxLines)

\* the companion OUTCARs of a DOS run: with and without a fermi level
FermiOutcars == {<<Line("junk", 0)>>, <<Line("fermi", 400)>>,
                 <<Line("fermi", -300), Line("toten", -10000), Line("fermi", 500)>>}

\* the six header lines of a DOSCAR: counts, two lattice lines, "CAR", the system
\* name (name_fields words), then EMAX EMIN NEDOS EFERMI weight
DoscarHeader(name_fields, nedos) ==
    << <<I(2), I(2), I(1), I(0)>>,
       <<F(20000), F(5000), F(5000), F(5000), F(1)>>,
       <<F(1000)>>,
       <<Word>>,
       [i \in 1..name_fields |-> Word],
       <<F(20000), F(-10000), I(nedos), F(400), F(1000)>> >>

\* the sampled energies of a DOSCAR, 1 eV apart
DosGrid == {(i - 2) * 1000 : i \in 1..MaxRows}

\* body lines: energy, then DOS and integrated DOS, or DOS up and DOS down
DosRows == {<<F(e), F(d[1]), F(d[2])>> : e \in DosGrid, d \in {<<0, 0>>, <<2000, 1000>>}}

\* bodies as the solver writes them: energies ascending
DosBodies ==
    {b \in SeqsUpTo(DosRows, MaxRows) : \A i \in 1..(Len(b) - 1) : b[i][1].v < b[i + 1][1].v}

Doscars ==
    {SubSeq(DoscarHeader(2, 0), 1, k) : k \in 0..5}
    \cup {[i \in 1..6 |-> <<Word>>]}
    \cup {DoscarHeader(nf, nedos) \o b :
            nf \in {2, 5}, nedos \in 0..MaxRows, b \in DosBodies}

\* the integration windows callers pass, relative to the fermi energy
Windows == {<<-20000, 20000>>, <<-600, 600>>, <<5000, 6000>>}

----------------------------------------------------------------------------
(* The state machine: one calculation directory, one EnergyAnalyzer on its  *)
(* OUTCAR and one DOSAnalyzer on the directory.                             *)

NoCall == [obj |-> "none", op |-> "none", arg |-> None, exc |-> "none", val |-> None]

\* no query of the EnergyAnalyzer is watched
Unwatched == [q |-> "none", called |-> FALSE, val |-> None, again |-> FALSE]

\* no analyzer is built on the EnergyAnalyzer and no thread queries it
Alone ==
    /\ composite = C_init("none")
    /\ series = <<>>
    /\ threads = <<>>

Analyzers ==
    /\ e_data = E_init.data
    /\ e_is_loaded = E_init.is_loaded
    /\ parses = E_init.parses
    /\ dos_data = D_init.dos_data
    /\ d_fermi = D_init.fermi_energy
    /\ d_is_loaded = D_init.is_loaded
    /\ last = NoCall

\* a directory without DOSCAR, with or without OUTCAR
EnergyDir ==
    /\ \/ outcar_exists = TRUE /\ outcar \in SectionOutcars
       \/ outcar_exists = FALSE /\ outcar = <<>>
    /\ doscar_exists = FALSE
    /\ doscar = <<>>

\* a directory with a DOSCAR, with or without the companion OUTCAR
DosDir ==
    /\ \/ outcar_exists = TRUE /\ outcar \in FermiOutcars
       \/ outcar_exists = FALSE /\ outcar = <<>>
    /\ doscar_exists = TRUE
    /\ doscar \in Doscars

Init ==
    /\ EnergyDir \/ DosDir
    /\ Analyzers
    /\ watched = Unwatched
    /\ Alone

\* an existing OUTCAR of any lines, for the reducers
InitRaw ==
    /\ outcar_exists = TRUE
    /\ outcar \in RawOutcars
    /\ doscar_exists = FALSE
    /\ doscar = <<>>
    /\ Analyzers
    /\ watched = Unwatched
    /\ Alone

\* an OUTCAR queried through the EnergyAnalyzer, one of the queries being watched
InitQueries ==
    /\ EnergyDir
    /\ Analyzers
    /\ \E q \in E_Queries : watched = [Unwatched EXCEPT !.q = q]
    /\ Alone

Dir == [outcar_exists |-> outcar_exists, outcar |-> outcar,
        doscar_exists |-> doscar_exists, doscar |-> doscar]

E_self == [data |-> e_data, is_loaded |-> e_is_loaded, parses |-> parses]

D_self == [dos_data |-> dos_data, fermi_energy |-> d_fermi, is_loaded |-> d_is_loaded]

\* the watched query keeps what its first call returned, and whether it was called again
Watch(op, r) ==
    IF op # watched.q \/ r.exc # "none" THEN watched
    ELSE IF ~watched.called THEN [watched EXCEPT !.called = TRUE, !.val = r.val]
    ELSE [watched EXCEPT !.again = TRUE]

\* a call on the EnergyAnalyzer with outcome r
E_Call(op, r) ==
    /\ r.self.parses <= MaxParses
    /\ e_data' = r.self.data
    /\ e_is_loaded' = r.self.is_loaded
    /\ parses' = r.self.parses
    /\ last' = [obj |-> "energy", op |-> op, arg |-> None, exc |-> r.exc, val |-> r.val]
    /\ watched' = Watch(op, r)
    /\ UNCHANGED <<outcar_exists, outcar, doscar_exists, doscar, dos_data, d_fermi,
                   d_is_loaded, composite, series, threads>>

\* a call on the DOSAnalyzer with outcome r
D_Call(op, arg, r) ==
    /\ dos_data' = r.self.dos_data
    /\ d_fermi' = r.self.fermi_energy
    /\ d_is_loaded' = r.self.is_loaded
    /\ last' = [obj |-> "dos", op |-> op, arg |-> arg, exc |-> r.exc, val |-> r.val]
    /\ UNCHANGED <<outcar_exists, outcar, doscar_exists, doscar, e_data, e_is_loaded,
                   parses, watched, composite, series, threads>>

E_LoadData ==
    \E r \in {E_load_data(E_self, outcar_exists, outcar)} : E_Call("load_data", r)

E_TotalEnergy ==
    \E r \in {E_query("total_energy", E_self, outcar_exists, outcar)} :
        E_Call("total_energy", r)

E_FermiEnergy ==
    \E r \in {E_query("fermi_energy", E_self, outcar_exists, outcar)} :
        E_Call("fermi_energy", r)

E_IsConverged ==
    \E r \in {E_query("is_converged", E_self, outcar_exists, outcar)} :
        E_Call("is_converged", r)

E_GetEnergyEvolution ==
    \E r \in {E_query("get_energy_evolution", E_self, outcar_exists, outcar)} :
        E_Call("get_energy_evolution", r)

E_GetFinalForces ==
    \E r \in {E_query("get_final_forces", E_self, outcar_exists, outcar)} :
        E_Call("get_final_forces", r)

E_GetFinalStress ==
    \E r \in {E_query("get_final_stress", E_self, outcar_exists, outcar)} :
        E_Call("get_final_stress", r)

E_AnalyzeConvergence ==
    \E r \in {E_query("analyze_convergence", E_self, outcar_exists, outcar)} :
        E_Call("analyze_convergence", r)

D_LoadData == \E r \in {D_load_data(D_self, Dir)} : D_Call("load_data", None, r)

D_GetDosAtFermi ==
    \E r \in {D_get_dos_at_fermi(D_self, Dir)} : D_Call("get_dos_at_fermi", None, r)

D_IntegrateDos ==
    \E energy_range \in Windows :
        \E r \in {D_integrate_dos(D_self, Dir, energy_range)} :
            D_Call("integrate_dos", energy_range, r)

D_GetBandGap == \E r \in {D_get_band_gap(D_self, Dir)} : D_Call("get_band_gap", None, r)

D_AnalyzeElectronicStructure ==
    \E r \in {D_analyze_electronic_structure(D_self, Dir)} :
        D_Call("analyze_electronic_structure", None, r)

NextQueries ==
    \/ E_TotalEnergy
    \/ E_FermiEnergy
    \/ E_IsConverged
    \/ E_GetEnergyEvolution
    \/ E_GetFinalForces
    \/ E_GetFinalStress
    \/ E_AnalyzeConvergence

NextEnergy == E_LoadData \/ NextQueries

NextDos ==
    \/ D_LoadData
    \/ D_GetDosAtFermi
    \/ D_IntegrateDos
    \/ D_GetBandGap
    \/ D_AnalyzeElectronicStructure

Next == NextEnergy \/ NextDos

\* body lines as any file may hold them: three fields, two fields, one field, none
AnyRows == {<<F(0), F(2000), F(1000)>>, <<F(1000), F(2000)>>, <<F(0)>>, <<>>}

\* DOSCARs with a sound header and any such lines after it
AnyDoscars ==
    {DoscarHeader(nf, nedos) \o b :
        nf \in {2, 5}, nedos \in 0..MaxRows, b \in SeqsUpTo(AnyRows, MaxRows)}

\* a directory with a DOSCAR of any body lines and no OUTCAR
InitDoscar ==
    /\ outcar_exists = FALSE
    /\ outcar = <<>>
    /\ doscar_exists = TRUE
    /\ doscar \in AnyDoscars
    /\ Analyzers
    /\ watched = Unwatched
    /\ Alone

\* the DOSAnalyzer over DOSCARs of any body lines
SpecDoscar == InitDoscar /\ [][NextDos]_vars

\* images of a reaction path
MaxImages == 5
\* samples of an energy series
MaxSamples == 11

\* the path 0.0, 0.3, 0.8, 0.2, -0.1
ExamplePath == <<0, 300, 800, 200, -100>>

\* reaction paths: image energies in 0.001 eV
NebPaths == SeqsUpTo({-100, 0, 800}, MaxImages) \cup {ExamplePath}

\* energy series: the line e0 + s * i, with one sample moved or none (at = 0)
EnergySeries ==
    {[i \in 1..n |-> -10000 + s * (i - 1) + (IF i = at THEN 1 ELSE 0)] :
        n \in 0..MaxSamples, s \in {-2, 0, 3}, at \in 0..MaxSamples}

\* OUTCARs of a path run: energies, markers, lines that report the image energies
PathOutcars ==
    SeqsUpTo({Line("toten", -10000), Line("fermi", 400), Line("acc", 0), Line("junk", 0),
              Line("neb", ExamplePath), Line("neb", <<800>>)}, MaxLines)

\* an analyzer of one of the three classes on an OUTCAR, present or missing
InitComposite ==
    /\ \/ outcar_exists = TRUE /\ outcar \in PathOutcars
       \/ outcar_exists = FALSE /\ outcar = <<>>
    /\ doscar_exists = FALSE
    /\ doscar = <<>>
    /\ Analyzers
    /\ watched = Unwatched
    /\ threads = <<>>
    /\ series = <<>>
    /\ \E kind \in {"neb", "md", "band"} : composite = C_init(kind)

\* an NEBAnalyzer with a path or an MDAnalyzer with an energy series
InitSeries ==
    /\ outcar_exists = FALSE
    /\ outcar = <<>>
    /\ doscar_exists = FALSE
    /\ doscar = <<>>
    /\ Analyzers
    /\ watched = Unwatched
    /\ threads = <<>>
    /\ \/ composite = C_init("neb") /\ series \in NebPaths
       \/ composite = C_init("md") /\ series \in EnergySeries

C_self == [c |-> composite, e |-> E_self]

\* a call on the composite analyzer with outcome r
C_Call(op, arg, r) ==
    /\ r.self.e.parses <= MaxParses
    /\ composite' = r.self.c
    /\ e_data' = r.self.e.data
    /\ e_is_loaded' = r.self.e.is_loaded
    /\ parses' = r.self.e.parses
    /\ last' = [obj |-> composite.kind, op |-> op, arg |-> arg, exc |-> r.exc, val |-> r.val]
    /\ UNCHANGED <<outcar_exists, outcar, doscar_exists, doscar, dos_data, d_fermi,
                   d_is_loaded, watched, series, threads>>

N_CalculateActivationEnergy ==
    /\ composite.kind = "neb"
    /\ C_Call("calculate_activation_energy", series,
              Return(C_self, ActivationEnergy(series)))

N_CalculateReactionEnergy ==
    /\ composite.kind = "neb"
    /\ C_Call("calculate_reaction_energy", series, Return(C_self, ReactionEnergy(series)))

N_FindTransitionStateIndex ==
    /\ composite.kind = "neb"
    /\ C_Call("find_transition_state_index", series,
              Return(C_self, TransitionStateIndex(series)))

\* _classify_reaction on the analysis of the path
N_ClassifyReaction ==
    /\ composite.kind = "neb"
    /\ \E analysis \in {PathAnalysis(series)} :
          C_Call("_classify_reaction", analysis, Return(C_self, ClassifyReaction(analysis)))

N_AnalyzeTransitionState ==
    /\ composite.kind = "neb"
    /\ \E r \in {N_analyze_transition_state(C_self, outcar_exists, outcar)} :
          C_Call("analyze_transition_state", None, r)

M_CalculateEnergyDrift ==
    /\ composite.kind = "md"
    /\ C_Call("calculate_energy_drift", series, Return(C_self, EnergyDrift(series)))

M_AnalyzeTrajectory ==
    /\ composite.kind = "md"
    /\ \E r \in {M_analyze_trajectory(C_self, outcar_exists, outcar)} :
          C_Call("analyze_trajectory", None, r)

B_AnalyzeElectronicStructure ==
    /\ composite.kind = "band"
    /\ \E r \in {B_analyze_electronic_structure(C_self, outcar_exists, outcar)} :
          C_Call("analyze_electronic_structure", None, r)

NextComposite ==
    \/ N_AnalyzeTransitionState
    \/ M_AnalyzeTrajectory
    \/ B_AnalyzeElectronicStructure

NextSeries ==
    \/ N_CalculateActivationEnergy
    \/ N_CalculateReactionEnergy
    \/ N_FindTransitionStateIndex
    \/ N_ClassifyReaction
    \/ M_CalculateEnergyDrift

\* bound on the eigenvalues handed to a BandAnalyzer
MaxBands == 3

\* eigenvalues around the fermi energy 0.4 of the logs, in 0.001 eV: below it, at
\* it, and 0.009, 0.01, 0.499, 0.5, 2.999 and 3.0 above it
EigenVals == {-100, 400, 409, 410, 899, 900, 3399, 3400}

\* the eigenvalues of up to MaxBands states, in ascending order
EigenLists ==
    {l \in SeqsUpTo(EigenVals, MaxBands) : \A i \in 1..(Len(l) - 1) : l[i] <= l[i + 1]}

\* a BandAnalyzer on an OUTCAR, present or missing
InitBand == InitComposite /\ composite.kind = "band"

\* a BandAnalyzer on an OUTCAR with or without a fermi level, present or missing, and
\* the eigenvalues its caller has
InitEigen ==
    /\ \/ outcar_exists = TRUE /\ outcar \in FermiOutcars
       \/ outcar_exists = FALSE /\ outcar = <<>>
    /\ doscar_exists = FALSE
    /\ doscar = <<>>
    /\ Analyzers
    /\ watched = Unwatched
    /\ threads = <<>>
    /\ series \in EigenLists
    /\ composite = C_init("band")

B_LoadData ==
    /\ composite.kind = "band"
    /\ \E r \in {C_load_data(C_self, outcar_exists, outcar)} : C_Call("load_data", None, r)

B_CalculateBandGap ==
    /\ composite.kind = "band"
    /\ \E r \in {B_calculate_band_gap(C_self, outcar_exists, outcar)} :
          C_Call("calculate_band_gap", None, r)

B_GetBandExtrema ==
    /\ composite.kind = "band"
    /\ \E r \in {B_get_band_extrema(C_self, outcar_exists, outcar)} :
          C_Call("get_band_extrema", None, r)

\* the caller assigns the attribute eigenvalues, a list of numbers
B_SetEigenvalues ==
    /\ composite.kind = "band"
    /\ C_Call("eigenvalues =", Some(series),
              Return([C_self EXCEPT !.c.eigenvalues = Some(series)], None))

\* the public operations of BandAnalyzer
NextBand ==
    \/ B_LoadData
    \/ B_CalculateBandGap
    \/ B_GetBandExtrema
    \/ B_AnalyzeElectronicStructure

\* a BandAnalyzer driven through its public operations only
SpecBand == InitBand /\ [][NextBand]_vars

\* a BandAnalyzer whose caller also assigns eigenvalues
SpecEigen == InitEigen /\ [][NextBand \/ B_SetEigenvalues]_vars

\* the summary operations of the three analyzers over an OUTCAR
SpecComposite == InitComposite /\ [][NextComposite]_vars

\* the methods of NEBAnalyzer and MDAnalyzer that take a sequence
SpecSeries == InitSeries /\ [][NextSeries]_vars

\* bound on the threads that share one EnergyAnalyzer
MaxThreads == 2

\* a thread between its queries, with the number of times it ran _parse_outcar
T_init == [pc |-> "idle", parsed |-> 0]

\* the query of thread t
T_op(t) == IF t % 2 = 1 THEN "total_energy" ELSE "get_energy_evolution"

\* a faulty guard: the query goes to load_data whatever _is_loaded says
T_check_always(self) == "parse"

\* "if not self._is_loaded:" as one read of the flag: where the thread goes next
T_check(self) == IF ~self.is_loaded THEN "parse" ELSE "answer"

\* one EnergyAnalyzer on an OUTCAR, shared by threads that have not queried it yet
InitThreads ==
    /\ \/ outcar_exists = TRUE /\ outcar \in FermiOutcars
       \/ outcar_exists = FALSE /\ outcar = <<>>
    /\ doscar_exists = FALSE
    /\ doscar = <<>>
    /\ Analyzers
    /\ watched = Unwatched
    /\ composite = C_init("none")
    /\ series = <<>>
    /\ \E n \in 1..MaxThreads : threads = [t \in 1..n |-> T_init]

\* thread t enters its query and reads self._is_loaded
T_Query(t) ==
    /\ threads[t].pc = "idle"
    /\ threads' = [threads EXCEPT ![t].pc = T_check(E_self)]
    /\ UNCHANGED <<outcar_exists, outcar, doscar_exists, doscar, e_data, e_is_loaded,
                   dos_data, d_fermi, d_is_loaded, parses, last, watched, composite,
                   series>>

\* thread t in load_data: the existence test, then "self._data = self._parse_outcar()"
T_Parse(t) ==
    /\ threads[t].pc = "parse"
    /\ \E r \in {E_load_data(E_self, outcar_exists, outcar)} :
          IF r.exc # "none"
          THEN /\ last' = [obj |-> "thread", op |-> T_op(t), arg |-> Some(t),
                           exc |-> r.exc, val |-> None]
               /\ threads' = [threads EXCEPT ![t].pc = "idle"]
               /\ e_data' = r.self.data
               /\ e_is_loaded' = r.self.is_loaded
               /\ parses' = r.self.parses
          ELSE /\ e_data' = r.self.data
               /\ parses' = r.self.parses
               /\ threads' = [threads EXCEPT ![t].pc = "flag", ![t].parsed = @ + 1]
               /\ UNCHANGED <<e_is_loaded, last>>
    /\ UNCHANGED <<outcar_exists, outcar, doscar_exists, doscar, dos_data, d_fermi,
                   d_is_loaded, watched, composite, series>>

\* thread t in load_data: "self._is_loaded = True"
T_SetLoaded(t) ==
    /\ threads[t].pc = "flag"
    /\ e_is_loaded' = TRUE
    /\ threads' = [threads EXCEPT ![t].pc = "answer"]
    /\ UNCHANGED <<outcar_exists, outcar, doscar_exists, doscar, e_data, dos_data,
                   d_fermi, d_is_loaded, parses, last, watched, composite, series>>

\* thread t returns self._data.get(...)
T_Answer(t) ==
    /\ threads[t].pc = "answer"
    /\ last' = [obj |-> "thread", op |-> T_op(t), arg |-> Some(t), exc |-> "none",
                val |-> E_answer(T_op(t), e_data[1])]
    /\ threads' = [threads EXCEPT ![t].pc = "idle"]
    /\ UNCHANGED <<outcar_exists, outcar, doscar_exists, doscar, e_data, e_is_loaded,
                   dos_data, d_fermi, d_is_loaded, parses, watched, composite, series>>

NextThreads ==
    \E t \in 1..Len(threads) :
        \/ T_Query(t)
        \/ T_Parse(t)
        \/ T_SetLoaded(t)
        \/ T_Answer(t)

\* threads querying one EnergyAnalyzer, interleaved at the reads and writes of its fields
SpecThreads == InitThreads /\ [][NextThreads]_vars

\* logs of a path run: lines that report image energies, a zero energy first, in the
\* middle or alone, a matching line without a number, and lines that do not match
NebLogs ==
    SeqsUpTo({Line("neb", ExamplePath), Line("neb", <<300, 0, 800>>), Line("neb", <<0>>),
              Line("neb", <<>>), Line("toten", -10000), Line("junk", 0)}, MaxLines)

\* an NEBAnalyzer on a log, present or missing; the caller holds no path yet
InitPath ==
    /\ \/ outcar_exists = TRUE /\ outcar \in NebLogs
       \/ outcar_exists = FALSE /\ outcar = <<>>
    /\ doscar_exists = FALSE
    /\ doscar = <<>>
    /\ Analyzers
    /\ watched = Unwatched
    /\ threads = <<>>
    /\ series = <<>>
    /\ composite = C_init("neb")

\* neb_energies = analyzer.extract_neb_energies(): the caller keeps the returned path
N_ExtractNebEnergies ==
    /\ composite.kind = "neb"
    /\ \E r \in {Return(C_self, ExtractNebEnergies(outcar_exists, outcar))} :
          /\ last' = [obj |-> composite.kind, op |-> "extract_neb_energies",
                      arg |-> None, exc |-> r.exc, val |-> r.val]
          /\ series' = r.val
    /\ UNCHANGED <<outcar_exists, outcar, doscar_exists, doscar, e_data, e_is_loaded,
                   dos_data, d_fermi, d_is_loaded, parses, watched, composite, threads>>

NextPath ==
    \/ N_ExtractNebEnergies
    \/ N_CalculateActivationEnergy
    \/ N_CalculateReactionEnergy

\* the path taken from the log and handed to the two energy methods
SpecPath == InitPath /\ [][NextPath]_vars

\* the OUTCAR is removed from the directory; outcar keeps the lines it had
OutcarRemoved ==
    /\ outcar_exists = TRUE
    /\ outcar_exists' = FALSE
    /\ UNCHANGED <<outcar, doscar_exists, doscar, e_data, e_is_loaded, dos_data, d_fermi,
                   d_is_loaded, parses, last, watched, composite, series, threads>>

NextVanish == NextThreads \/ E_LoadData \/ OutcarRemoved

\* threads querying one EnergyAnalyzer and a caller of load_data, while the OUTCAR
\* may disappear between any two of their steps
SpecVanish == InitThreads /\ [][NextVanish]_vars

\* the lines of force blocks and of the step counts
BlockLines ==
    {Line("fheader", 0), Line("fhalf", 0), Line("posonly", 0), Line("frow", 100),
     Line("frowbad", 0), Line("sep", 0), Line("blank", 0), Line("dav", 1), Line("iter", 0)}

\* pieces of a relaxation log: force blocks closed by dashes or by a blank line, with
\* the dashes right under the header, with an unreadable row, under a header without
\* POSITION or without the unit; electronic iterations before the header of a step
BlockSections ==
    {<<Line("fheader", 0), Line("frow", 100), Line("frow", 200), Line("sep", 0)>>,
     <<Line("fheader", 0), Line("sep", 0), Line("frow", 300), Line("sep", 0)>>,
     <<Line("fheader", 0), Line("frowbad", 0), Line("frow", 300), Line("blank", 0)>>,
     <<Line("fhalf", 0), Line("frow", 200), Line("frow", 100), Line("sep", 0)>>,
     <<Line("posonly", 0), Line("frow", 100), Line("blank", 0)>>,
     <<Line("iter", 0), Line("dav", 1), Line("dav", 2), Line("fheader", 0)>>,
     <<Line("dav", 1), Line("iter", 0), Line("dav", 1), Line("posonly", 0)>>,
     <<Line("fheader", 0)>>}

BlockOutcars ==
    SeqsUpTo(BlockLines, MaxLines)
    \cup {Flatten(ss) : ss \in SeqsUpTo(BlockSections, MaxSections)}

\* an existing OUTCAR of force blocks and iteration lines
InitBlocks ==
    /\ outcar_exists = TRUE
    /\ outcar \in BlockOutcars
    /\ doscar_exists = FALSE
    /\ doscar = <<>>
    /\ Analyzers
    /\ watched = Unwatched
    /\ Alone

\* the EnergyAnalyzer on logs of force blocks and electronic iterations
NextBlocks == E_LoadData \/ E_GetFinalForces \/ E_AnalyzeConvergence

SpecBlocks == InitBlocks /\ [][NextBlocks]_vars

\* the lines of stress, magnetization and force blocks and of energies
LogLines ==
    {Line("sheader", 0), Line("srow", 5), Line("mheader", 0), Line("mrow", 1000),
     Line("fheader", 0), Line("frow", 100), Line("sep", 0), Line("toten", -10000)}

\* count lines without any marker
Filler(count) == [i \in 1..count |-> Line("junk", 0)]

\* pieces of a log: a stress header with one row, with two rows, twice over one row,
\* with its row on the last line of the lookahead and on the line after it;
\* magnetization and force blocks that are closed, closed right under the header,
\* and left open; an ionic step, an energy line and the accuracy marker
LogSections ==
    {<<Line("sheader", 0), Line("srow", 5)>>,
     <<Line("sheader", 0), Line("srow", 5), Line("srow", 7)>>,
     <<Line("sheader", 0), Line("sheader", 0), Line("srow", 5)>>,
     <<Line("sheader", 0)>> \o Filler(StressWindow - 2) \o <<Line("srow", 7)>>,
     <<Line("sheader", 0)>> \o Filler(StressWindow - 1) \o <<Line("srow", 7)>>,
     <<Line("mheader", 0), Line("mrow", 1000), Line("mrow", 2000), Line("blank", 0)>>,
     <<Line("mheader", 0), Line("sep", 0), Line("mrow", 1000), Line("sep", 0)>>,
     <<Line("mheader", 0), Line("mrow", 3000)>>,
     <<Line("fheader", 0), Line("frow", 100), Line("frow", 200), Line("sep", 0)>>,
     <<Line("fheader", 0), Line("blank", 0)>>,
     <<Line("fheader", 0), Line("frow", 300)>>,
     <<Line("toten", -10000), Line("fheader", 0), Line("frow", -100), Line("blank", 0)>>,
     <<Line("toten", -10050)>>,
     <<Line("acc", 0)>>}

LogOutcars ==
    SeqsUpTo(LogLines, MaxLines)
    \cup {Flatten(ss) : ss \in SeqsUpTo(LogSections, MaxSections)}

\* an existing OUTCAR of stress, magnetization and force blocks
InitLogs ==
    /\ outcar_exists = TRUE
    /\ outcar \in LogOutcars
    /\ doscar_exists = FALSE
    /\ doscar = <<>>
    /\ Analyzers
    /\ watched = Unwatched
    /\ Alone

NextLogs == E_LoadData \/ E_GetFinalForces \/ E_GetFinalStress

\* the EnergyAnalyzer on logs of stress, magnetization and force blocks
SpecLogs == InitLogs /\ [][NextLogs]_vars

----------------------------------------------------------------------------
(* The calculation tasks: core/tasks/base_task.py, core/tasks/calculation_tasks.py *)

\* how many errors a task collects before the model stops calling it
MaxErrors == 2

TaskStatus ==
    {"CREATED", "PREPARED", "SUBMITTED", "RUNNING", "COMPLETED", "FAILED", "CANCELLED"}

\* the names an EnergyAnalyzer has: its three fields, its methods and properties
E_attributes ==
    {"outcar_path", "_data", "_is_loaded", "load_data", "_parse_outcar",
     "_parse_energies", "_parse_forces", "_parse_stress", "_parse_fermi_energy",
     "_parse_magnetic_moments", "_parse_timing", "_check_convergence",
     "total_energy", "fermi_energy", "is_converged", "get_energy_evolution",
     "get_final_forces", "get_final_stress", "analyze_convergence"}

\* energy_analyzer.<name>: a name the class does not have raises AttributeError
E_getattr(self, name) ==
    IF name \in E_attributes THEN Return(self, name) ELSE Raise(self, "AttributeError")

\* BaseTask.__init__: status CREATED, no results, no errors
Task_init(kind) == [kind |-> kind, status |-> "CREATED", results |-> {}, errors |-> <<>>]

\* the names check_results looks up on its EnergyAnalyzer inside the try block
Task_lookups(kind) ==
    IF kind = "optimization" THEN <<"read", "final_forces">> ELSE <<"read", "fermi_energy">>

\* the keys of the results a check that went through puts together
Task_results(kind) ==
    IF kind = "optimization"
    THEN {"converged", "final_energy", "energy_change", "ionic_steps", "max_force",
          "volume_change"}
    ELSE {"calculation_completed", "converged", "fermi_energy", "total_energy"}

Task_fail(task, message) ==
    [task EXCEPT !.status = "FAILED", !.errors = Append(@, message)]

\* the try block: the first lookup that raises sends the task to the except branch
Task_try(task) ==
    LET names == Task_lookups(task.kind)
        raised == {i \in 1..Len(names) : E_getattr(E_init, names[i]).exc # "none"}
    IN  IF raised # {}
        THEN Return([Task_fail(task, "analysis failed") EXCEPT !.results = {}], {})
        ELSE Return([task EXCEPT !.status = "COMPLETED",
                                 !.results = Task_results(task.kind)],
                    Task_results(task.kind))

\* OptimizationTask.check_results
O_check_results(task, dir) ==
    IF dir.outcar_exists THEN Task_try(task)
    ELSE Return([Task_fail(task, "no OUTCAR") EXCEPT !.results = {}], {})

\* DOSTask.check_results: the two early returns leave self.results alone
DT_check_results(task, dir) ==
    IF ~dir.outcar_exists THEN Return(Task_fail(task, "no OUTCAR"), {})
    ELSE IF ~dir.doscar_exists THEN Return(Task_fail(task, "no DOSCAR"), {})
    ELSE Task_try(task)

Task_check_results(task, dir) ==
    IF task.kind = "optimization" THEN O_check_results(task, dir)
    ELSE DT_check_results(task, dir)

\* DOSTask.get_detailed_analysis: refused unless COMPLETED; DOSAnalyzer, which takes
\* the directory, is then built with two paths
DT_get_detailed_analysis(task, dir) ==
    IF task.status # "COMPLETED" THEN Raise(task, "ValueError")
    ELSE Raise(task, "TypeError")

\* BaseTask.prepare: PREPARED, or FAILED with an error and the exception raised again
Task_prepare(task, ok) ==
    IF ok THEN Return([task EXCEPT !.status = "PREPARED"], None)
    ELSE Raise(Task_fail(task, "prepare failed"), "Exception")

\* a task on a work directory, its OUTCAR and DOSCAR present or missing
InitTasks ==
    /\ \/ outcar_exists = TRUE /\ outcar \in FermiOutcars
       \/ outcar_exists = FALSE /\ outcar = <<>>
    /\ \/ doscar_exists = TRUE /\ doscar \in {<<>>, DoscarHeader(2, 0)}
       \/ doscar_exists = FALSE /\ doscar = <<>>
    /\ Analyzers
    /\ watched = Unwatched
    /\ series = <<>>
    /\ threads = <<>>
    /\ \E kind \in {"optimization", "dos"} : composite = Task_init(kind)

\* a call on the task with outcome r
Task_Call(op, r) ==
    /\ Len(r.self.errors) <= MaxErrors
    /\ composite' = r.self
    /\ last' = [obj |-> composite.kind, op |-> op, arg |-> None, exc |-> r.exc,
                val |-> r.val]
    /\ UNCHANGED <<outcar_exists, outcar, doscar_exists, doscar, e_data, e_is_loaded,
                   dos_data, d_fermi, d_is_loaded, parses, watched, series, threads>>

Task_Prepare ==
    \E ok \in BOOLEAN : Task_Call("prepare", Task_prepare(composite, ok))

Task_CheckResults ==
    \E r \in {Task_check_results(composite, Dir)} : Task_Call("check_results", r)

Task_GetDetailedAnalysis ==
    /\ composite.kind = "dos"
    /\ \E r \in {DT_get_detailed_analysis(composite, Dir)} :
          Task_Call("get_detailed_analysis", r)

NextTasks == Task_Prepare \/ Task_CheckResults \/ Task_GetDetailedAnalysis

SpecTasks == InitTasks /\ [][NextTasks]_vars

\* both analyzers over a calculation directory
Spec == Init /\ [][Next]_vars

\* the EnergyAnalyzer over OUTCARs of any lines
SpecRaw == InitRaw /\ [][NextEnergy]_vars

\* the EnergyAnalyzer used through its query operations only
SpecQueries == InitQueries /\ [][NextQueries]_vars

----------------------------------------------------------------------------
(* Properties *)

EnergyCall(ops) == last.obj = "energy" /\ last.op \in ops
DosCall(ops) == last.obj = "dos" /\ last.op \in ops
D_Queries == {"get_dos_at_fermi", "integrate_dos", "get_band_gap",
              "analyze_electronic_structure"}

\* C1: when the source file of an analyzer is missing, load_data, and a query that
\* has to load first, fail with FileFormatError and leave no record; this holds for
\* the EnergyAnalyzer on its OUTCAR and for the DOSAnalyzer on its DOSCAR.
C1_MissingSourceFails ==
    /\ (last.obj = "energy" /\ ~outcar_exists) =>
           /\ last.exc = "FileFormatError"
           /\ last.val = None
           /\ e_data = None
           /\ ~e_is_loaded
    /\ (last.obj = "dos" /\ ~doscar_exists) =>
           /\ last.exc = "FileFormatError"
           /\ last.val = None
           /\ dos_data = None

\* load_data on a missing OUTCAR has failed
C1_Witness ==
    /\ ~outcar_exists
    /\ EnergyCall({"load_data"})
    /\ last.exc = "FileFormatError"

\* a line that changes what a reducer does with the file, whatever surrounds it
Marker(l) ==
    \/ EnergyMatch(l) \/ FermiMatch(l) \/ HasForceHeader(l) \/ HasStressHeader(l)
    \/ HasMagHeader(l) \/ HasAccuracy(l) \/ HasIteration(l) \/ HasElectronicStep(l)
    \/ HasPositionForce(l)
    \/ l.k \in {"cpu", "elapsed"}

NoMarker(lines) == \A i \in 1..Len(lines) : ~Marker(lines[i])

C3_ShortDoscarFails ==
    (doscar_exists /\ Len(doscar) < 6) =>
        /\ dos_data = None
        /\ last.obj = "dos" => (last.exc = "FileFormatError" /\ last.val = None)

\* a query on a five-line DOSCAR has failed
C3_Witness ==
    /\ doscar_exists
    /\ Len(doscar) = 5
    /\ DosCall(D_Queries)
    /\ last.exc = "FileFormatError"
    /\ dos_data = None

\* the positions of the labelled free-energy lines with a numeric value
LabelledAt(lines) == {i \in 1..Len(lines) : lines[i].k = "toten"}

\* the values of those lines, in file order
LabelledEnergies(lines) ==
    [k \in 1..Cardinality(LabelledAt(lines)) |->
        lines[CHOOSE i \in LabelledAt(lines) :
                  Cardinality({j \in LabelledAt(lines) : j < i}) = k - 1].v]

\* C4: for an OUTCAR with N labelled free-energy lines carrying a numeric value,
\* get_energy_evolution returns exactly N values, those of the lines in file order,
\* equal values included.
C4_EnergyEvolution ==
    (EnergyCall({"get_energy_evolution"}) /\ outcar_exists) =>
        /\ last.exc = "none"
        /\ Len(last.val) = Cardinality(LabelledAt(outcar))
        /\ last.val = LabelledEnergies(outcar)

\* two equal energies around a line that is not one have been returned
C4_Witness ==
    /\ EnergyCall({"get_energy_evolution"})
    /\ Len(outcar) = 3
    /\ outcar[2].k = "totenbad"
    /\ Len(last.val) = 2
    /\ last.val[1] = last.val[2]

\* C5: total_energy of the record is the last element of energies when there is
\* one and absent when there is none, and the total_energy query returns it.
C5_TotalEnergy ==
    /\ e_data # None =>
          e_data[1].total_energy =
              IF e_data[1].energies = <<>> THEN None
              ELSE Some(e_data[1].energies[Len(e_data[1].energies)])
    /\ (EnergyCall({"total_energy"}) /\ outcar_exists) =>
          /\ last.exc = "none"
          /\ last.val = e_data[1].total_energy
          /\ last.val = IF LabelledAt(outcar) = {} THEN None
                        ELSE Some(Last(LabelledEnergies(outcar)))

\* the query has returned the last of several different energies
C5_Witness ==
    /\ EnergyCall({"total_energy"})
    /\ Len(e_data[1].energies) >= 2
    /\ e_data[1].energies[1] # Last(e_data[1].energies)
    /\ last.val = Some(Last(e_data[1].energies))

\* C6: under any sequence of queries on an EnergyAnalyzer whose OUTCAR exists, the
\* file is parsed at most once, by the first query, and a query called again
\* returns what its first call returned.
C6_ParsedOnce ==
    outcar_exists =>
        /\ parses <= 1
        /\ (parses = 1) = e_is_loaded
        /\ EnergyCall(E_Queries) => (last.exc = "none" /\ parses = 1)
        /\ (EnergyCall({watched.q}) /\ watched.called) => last.val = watched.val

\* the watched query has been called again and the file was parsed once
C6_Witness ==
    /\ outcar_exists
    /\ EnergyCall({watched.q})
    /\ watched.again
    /\ watched.q = "analyze_convergence"
    /\ watched.val.energy_change # None
    /\ parses = 1

\* C7: energy_change of analyze_convergence is absent with fewer than two energies
\* and is otherwise the distance between the last two, 0.001 for -10.0, -10.05,
\* -10.051; the energies before them have no part in it.
C7_EnergyChange ==
    (EnergyCall({"analyze_convergence"}) /\ outcar_exists) =>
        LET energies == LabelledEnergies(outcar)
            n == Len(energies)
        IN  /\ last.exc = "none"
            /\ n < 2 => last.val.energy_change = None
            /\ n >= 2 =>
                  \/ /\ energies[n] >= energies[n - 1]
                     /\ last.val.energy_change = Some(energies[n] - energies[n - 1])
                  \/ /\ energies[n] < energies[n - 1]
                     /\ last.val.energy_change = Some(energies[n - 1] - energies[n])

\* the energies -10.0, -10.05, -10.051 have given 0.001
C7_Witness ==
    /\ EnergyCall({"analyze_convergence"})
    /\ LabelledEnergies(outcar) = <<-10000, -10050, -10051>>
    /\ last.val.energy_change = Some(1)

\* the density of sample i of a loaded DOSCAR, the two spin channels added
SummedDensity(dos, i) ==
    IF dos.is_spin_polarized THEN dos.total_dos.up[i] + dos.total_dos.down[i]
    ELSE dos.total_dos.total[i]

\* the samples whose energy relative to the Fermi energy lies in the closed window
InWindow(dos, fermi, window) ==
    {i \in 1..Len(dos.energies) :
        dos.energies[i] - fermi >= window[1] /\ dos.energies[i] - fermi <= window[2]}

\* the samples of a set, in ascending order
RECURSIVE Ascending(_)
Ascending(S) ==
    IF S = {} THEN <<>>
    ELSE LET m == CHOOSE i \in S : \A j \in S : i <= j
         IN  <<m>> \o Ascending(S \ {m})

\* C8: with the DOSCAR loaded and the Fermi energy known, integrate_dos returns the
\* trapezoid integral of the spin-summed density over the samples whose energy
\* relative to the Fermi energy lies in the closed window, and exactly 0 when the
\* window selects no sample.
C8_IntegrateDosTrapezoid ==
    (DosCall({"integrate_dos"}) /\ dos_data # None /\ d_fermi # None) =>
        LET dos == dos_data[1]
            selected == Ascending(InWindow(dos, d_fermi[1], last.arg))
        IN  /\ last.exc = "none"
            /\ last.val =
                  IF selected = <<>> THEN 0
                  ELSE Trapz([k \in 1..Len(selected) |-> SummedDensity(dos, selected[k])],
                             [k \in 1..Len(selected) |->
                                 dos.energies[selected[k]] - d_fermi[1]])

\* the first sample nearest the Fermi energy
Nearest(energies, fermi) ==
    CHOOSE i \in 1..Len(energies) :
        /\ \A j \in 1..Len(energies) : Abs(energies[j] - fermi) >= Abs(energies[i] - fermi)
        /\ \A j \in 1..(i - 1) : Abs(energies[j] - fermi) # Abs(energies[i] - fermi)

\* C9: with the DOSCAR loaded and the Fermi energy known, get_dos_at_fermi returns
\* the spin-summed density of the sample whose energy is nearest the Fermi energy,
\* the lowest index on a tie: the second sample for energies -1, 0, 1 and Fermi
\* energy 0.4.
C9_DosAtNearestSample ==
    (/\ DosCall({"get_dos_at_fermi"})
     /\ dos_data # None
     /\ d_fermi # None
     /\ dos_data[1].energies # <<>>) =>
        /\ last.exc = "none"
        /\ last.val = SummedDensity(dos_data[1], Nearest(dos_data[1].energies, d_fermi[1]))
        /\ (dos_data[1].energies = <<-1000, 0, 1000>> /\ d_fermi = Some(400)) =>
              Nearest(dos_data[1].energies, d_fermi[1]) = 2

\* C10: when the DOSCAR is well formed and the OUTCAR reports a Fermi energy,
\* get_dos_at_fermi, integrate_dos over a window that selects samples, get_band_gap
\* and analyze_electronic_structure complete on the record load_data stored.
C10_QueriesAcceptRecord ==
    (/\ DosCall(D_Queries)
     /\ outcar_exists
     /\ dos_data # None
     /\ d_fermi # None
     /\ dos_data[1].energies # <<>>
     /\ last.op = "integrate_dos" =>
            InWindow(dos_data[1], d_fermi[1], last.arg) # {}) =>
        /\ last.exc = "none"
        /\ last.val # None

\* the gap the contract of get_band_gap describes, for a loaded DOSCAR and a Fermi energy
ContractGap(dos, fermi) ==
    LET all == 1..Len(dos.energies)
        below == {i \in all : dos.energies[i] < fermi /\ SummedDensity(dos, i) > DosThreshold}
        above == {i \in all : dos.energies[i] > fermi /\ SummedDensity(dos, i) > DosThreshold}
    IN  IF SummedDensity(dos, Nearest(dos.energies, fermi)) > DosThreshold THEN 0
        ELSE IF below = {} \/ above = {} THEN 0
        ELSE (CHOOSE e \in {dos.energies[i] : i \in above} :
                  \A i \in above : dos.energies[i] >= e)
             - (CHOOSE e \in {dos.energies[i] : i \in below} :
                  \A i \in below : dos.energies[i] <= e)

\* C11: with the DOSCAR loaded and a Fermi energy available, get_band_gap returns 0
\* when the density of the sample nearest the Fermi energy exceeds the threshold,
\* otherwise the lowest energy above the Fermi energy with a density above the
\* threshold minus the highest such energy below it, and 0 when there is no such pair.
C11_BandGapContract ==
    (/\ DosCall({"get_band_gap"})
     /\ dos_data # None
     /\ d_fermi # None
     /\ dos_data[1].energies # <<>>) =>
        /\ last.exc = "none"
        /\ last.val = Some(ContractGap(dos_data[1], d_fermi[1]))

\* the body lines _parse_dos_data is allowed to read: nedos of them, or those present
BodyLines(lines) ==
    LET nedos == lines[6][3].v
        present == Len(lines) - 6
    IN  IF nedos < present THEN nedos ELSE present

\* the sequences of total_dos
DensityLengths(dos) ==
    IF dos.is_spin_polarized THEN {Len(dos.total_dos.up), Len(dos.total_dos.down)}
    ELSE {Len(dos.total_dos.total)}

\* C12 as stated: in every record of a DOSCAR, energies and each total-density
\* sequence have the same length, min(nedos, line count - 6).
C12_LengthIsNedos ==
    dos_data # None =>
        /\ DensityLengths(dos_data[1]) = {Len(dos_data[1].energies)}
        /\ Len(dos_data[1].energies) = BodyLines(doscar)

\* C12, amended: in every record of a DOSCAR, energies and each total-density
\* sequence have the same length: the number of lines with at least two fields
\* among the first min(nedos, line count - 6) lines after line 6.
C12_LengthIsRowsRead ==
    dos_data # None =>
        /\ DensityLengths(dos_data[1]) = {Len(dos_data[1].energies)}
        /\ Len(dos_data[1].energies) =
              Cardinality({i \in 1..BodyLines(doscar) : Len(doscar[6 + i]) >= 2})

\* a spin-polarized DOSCAR cut before nedos lines, one of them short, has been loaded
C12_Witness ==
    /\ dos_data # None
    /\ dos_data[1].is_spin_polarized
    /\ Len(doscar) - 6 < doscar[6][3].v
    /\ BodyLines(doscar) = 2
    /\ Len(dos_data[1].energies) = 1

CompositeCall(kind, ops) == last.obj = kind /\ last.op \in ops

\* the path analyze_transition_state reads from the OUTCAR
PathOfLog == ExtractNebEnergies(outcar_exists, outcar)

\* C13: for a reaction path of at least three image energies, NEBAnalyzer gives the
\* activation energy max(images) - first, the reaction energy last - first, the
\* transition-state index of the first maximum and the reverse barrier activation -
\* reaction in the analysis of analyze_transition_state.
C13_PathMetrics ==
    (/\ CompositeCall("neb", {"analyze_transition_state"})
     /\ outcar_exists
     /\ Len(PathOfLog) >= 3) =>
        /\ last.exc = "none"
        /\ last.val.path.activation_energy = Some(Max(PathOfLog) - PathOfLog[1])
        /\ last.val.path.reaction_energy = Some(Last(PathOfLog) - PathOfLog[1])
        /\ PathOfLog[last.val.path.transition_state_index[1] + 1] = Max(PathOfLog)
        /\ last.val.path.reverse_barrier =
              Some((Max(PathOfLog) - PathOfLog[1]) - (Last(PathOfLog) - PathOfLog[1]))

ReactionTypes == {"isomerization", "exothermic", "endothermic", "thermoneutral"}

Classified ==
    /\ CompositeCall("neb", {"_classify_reaction"})
    /\ last.arg.reaction_energy # None
    /\ last.arg.activation_energy # None

\* C14 as stated: a path with known activation and reaction energy gets exactly one
\* of the four types by the +/-0.1 threshold on the reaction energy, and the path
\* 0.0, 0.3, 0.8, 0.2, -0.1, whose reaction energy is -0.1, is exothermic.
C14_ExampleExothermic ==
    Classified =>
        /\ last.val \in ReactionTypes
        /\ last.arg.reaction_energy = Some(-100) => last.val = "exothermic"

\* C14, amended: a path with known activation and reaction energy gets exactly one
\* of the four types: isomerization when the reaction energy is strictly between
\* -0.1 and 0.1, exothermic strictly below -0.1, endothermic strictly above 0.1,
\* thermoneutral at exactly -0.1 or 0.1; the path 0.0, 0.3, 0.8, 0.2, -0.1 is
\* thermoneutral.
C14_StrictThresholds ==
    Classified =>
        LET re == last.arg.reaction_energy[1]
        IN  /\ last.val \in ReactionTypes
            /\ (last.val = "isomerization") = (re > -100 /\ re < 100)
            /\ (last.val = "exothermic") = (re < -100)
            /\ (last.val = "endothermic") = (re > 100)
            /\ (last.val = "thermoneutral") = (re = -100 \/ re = 100)

\* the path 0.0, 0.3, 0.8, 0.2, -0.1 has been classified
C14_Witness ==
    /\ Classified
    /\ series = <<0, 300, 800, 200, -100>>
    /\ last.arg.reaction_energy = Some(-100)
    /\ last.val = "thermoneutral"

\* the series is the line through its first sample with slope s
Linear(energies, s) ==
    \A i \in 1..Len(energies) : energies[i] = energies[1] + s * (i - 1)

\* C15: calculate_energy_drift returns nothing for a series of fewer than 10
\* samples, and for a series of 10 or more samples that is linear in the step index
\* with slope s it returns s.
C15_EnergyDrift ==
    CompositeCall("md", {"calculate_energy_drift"}) =>
        /\ last.exc = "none"
        /\ Len(series) < 10 => last.val = None
        /\ Len(series) >= 10 =>
              /\ last.val # None
              /\ last.val[1].den > 0
              /\ \A s \in -5..5 : Linear(series, s) => last.val[1].num = s * last.val[1].den

\* the drift of ten samples on a line of slope 3 has been returned
C15_Witness ==
    /\ CompositeCall("md", {"calculate_energy_drift"})
    /\ Len(series) = 10
    /\ Linear(series, 3)
    /\ last.val[1].num = 3 * last.val[1].den

\* C16: analyze_transition_state, analyze_trajectory and analyze_electronic_structure
\* of the analyzers built on the EnergyAnalyzer raise nothing on an OUTCAR that
\* exists, and propagate only the failure of the load when it is missing.
C16_SummariesNeverRaise ==
    (\/ CompositeCall("neb", {"analyze_transition_state"})
     \/ CompositeCall("md", {"analyze_trajectory"})
     \/ CompositeCall("band", {"analyze_electronic_structure"})) =>
        /\ outcar_exists => last.exc = "none"
        /\ ~outcar_exists => last.exc = "FileFormatError"

\* C17: the parse-at-most-once guarantee is per thread, not per analyzer: with one
\* thread the OUTCAR is parsed at most once, with several threads each of them parses
\* at most once, so the file is parsed as many times as there are threads that read
\* _is_loaded before any of them set it; every query still answers from a record of
\* the file.
C17_ParsedOncePerThread ==
    /\ \A t \in 1..Len(threads) : threads[t].parsed <= 1
    /\ parses = Sum([t \in 1..Len(threads) |-> threads[t].parsed])
    /\ Len(threads) = 1 => parses <= 1
    /\ (last.obj = "thread" /\ last.exc = "none") =>
          last.val = E_answer(last.op, ParseOutcar(outcar))

\* two threads both found the record not loaded and both parsed the OUTCAR
C17_Witness ==
    /\ Len(threads) = 2
    /\ threads[1].parsed = 1
    /\ threads[2].parsed = 1
    /\ parses = 2
    /\ e_is_loaded
    /\ last.obj = "thread"

\* the OUTCAR has been parsed into the record
Parsed == outcar_exists /\ e_data # None

\* the positions in lo..hi, in file order
Positions(lo, hi) == [j \in 1..(hi - lo + 1) |-> lo + j - 1]

\* line i is read inside a force block: a header before it, no blank line or dashes
\* between that header and it
InBlockAt(i) ==
    \E h \in 1..(i - 1) :
        /\ outcar[h].k \in {"fheader", "fhalf"}
        /\ \A j \in (h + 1)..(i - 1) : outcar[j].k \notin {"blank", "sep"}

\* the blank lines and dashes that close a force block
Terminators ==
    SelectSeq(Positions(1, Len(outcar)),
              LAMBDA i : outcar[i].k \in {"blank", "sep"} /\ InBlockAt(i))

\* the last header before line i
OpenedAt(i) ==
    CHOOSE h \in 1..(i - 1) :
        /\ outcar[h].k \in {"fheader", "fhalf"}
        /\ \A j \in (h + 1)..(i - 1) : outcar[j].k \notin {"fheader", "fhalf"}

\* fields 4 to 6 of the line are numbers
NumericRow(l) ==
    /\ Len(Split(l)) >= 6
    /\ \A f \in 4..6 : Split(l)[f].num

\* the lines of at least six fields of the block closed at line i
WideRowsAt(i) ==
    SelectSeq(Positions(OpenedAt(i) + 1, i - 1), LAMBDA j : Len(Split(outcar[j])) >= 6)

\* the vectors of the block closed at line i: fields 4 to 6 of its numeric rows
SnapshotAt(i) ==
    LET rows == SelectSeq(Positions(OpenedAt(i) + 1, i - 1), LAMBDA j : NumericRow(outcar[j]))
    IN  [r \in 1..Len(rows) |->
            <<Split(outcar[rows[r]])[4].v, Split(outcar[rows[r]])[5].v,
              Split(outcar[rows[r]])[6].v>>]

\* C18 as stated: every force block (header, rows, terminator) yields exactly one
\* snapshot, which holds one vector per line of at least six fields of the block.
C18_SnapshotPerBlock ==
    Parsed =>
        /\ Len(e_data[1].forces) = Len(Terminators)
        /\ \A k \in 1..Len(e_data[1].forces) :
              k <= Len(Terminators) =>
                  Len(e_data[1].forces[k]) = Len(WideRowsAt(Terminators[k]))

\* C18, amended: inside a block only the lines of at least six fields whose fields
\* 4 to 6 are numbers append a vector, and a blank line or dashes flush the buffer
\* only when it is not empty; the snapshots are, in file order, those of the closed
\* blocks that have at least one such row, each holding the vectors of its rows in
\* file order.
C18_SnapshotPerFilledBlock ==
    Parsed =>
        e_data[1].forces =
            SelectSeq([k \in 1..Len(Terminators) |-> SnapshotAt(Terminators[k])],
                      LAMBDA snapshot : snapshot # <<>>)

\* two blocks gave two snapshots in file order, the unreadable row of the first gave
\* no vector
C18_Witness ==
    /\ Parsed
    /\ e_data[1].forces = << <<<<300, 0, 0>>>>, <<<<100, 0, 0>>, <<200, 0, 0>>>> >>
    /\ Len(Terminators) = 2
    /\ \E i \in 1..Len(outcar) : outcar[i].k = "frowbad" /\ InBlockAt(i)
    /\ EnergyCall({"get_final_forces"})
    /\ last.val = Some(<<<<100, 0, 0>>, <<200, 0, 0>>>>)

\* the lines that contain POSITION and TOTAL-FORCE
StepLines == {i \in 1..Len(outcar) : outcar[i].k \in {"fheader", "posonly"}}

\* C19 as stated: the ionic step count is the number of lines that open a force
\* block in the force reducer.
C19_StepPerBlockHeader ==
    Parsed =>
        e_data[1].ionic_steps =
            Cardinality({i \in 1..Len(outcar) : outcar[i].k \in {"fheader", "fhalf"}})

\* C19, amended: the ionic step count is the number of lines that contain both
\* POSITION and TOTAL-FORCE; a line that opens a force block without POSITION is
\* not counted, a line with both words and without the unit is counted and opens
\* no block.
C19_StepPerPositionForceLine ==
    Parsed => e_data[1].ionic_steps = Cardinality(StepLines)

\* a header without POSITION opened a block that gave a snapshot and no ionic step,
\* beside a full header that gave both
C19_Witness ==
    /\ Parsed
    /\ EnergyCall({"analyze_convergence"})
    /\ last.val.ionic_steps = 1
    /\ Len(e_data[1].forces) = 2
    /\ \E i \in 1..Len(outcar) : outcar[i].k = "fhalf"
    /\ \E i \in 1..Len(outcar) : outcar[i].k = "fheader"

\* the electronic iteration lines counted for the step at line p: those after the
\* last ITERATION line or step line before p
CountedAt(p) ==
    Cardinality({j \in 1..(p - 1) :
        /\ outcar[j].k = "dav"
        /\ \A r \in (j + 1)..(p - 1) : outcar[r].k \notin {"iter", "fheader", "posonly"}})

\* the counts of the steps in file order
StepCounts ==
    LET steps == SelectSeq(Positions(1, Len(outcar)), LAMBDA i : i \in StepLines)
    IN  [k \in 1..Len(steps) |-> CountedAt(steps[k])]

\* C20 as stated: electronic_steps has one entry per ionic step, the k-th being the
\* number of DAV:/RMM: lines of the k-th ionic step.
C20_EntryPerIonicStep ==
    Parsed =>
        /\ Len(e_data[1].electronic_steps) = e_data[1].ionic_steps
        /\ \A k \in 1..Len(e_data[1].electronic_steps) :
              k <= Len(StepCounts) => e_data[1].electronic_steps[k] = StepCounts[k]

\* C20, amended: electronic_steps holds, in file order, the counts of the ionic
\* steps that have at least one DAV:/RMM: line since the last ITERATION line or step
\* line; a step without such a line adds no entry, so the list can be shorter than
\* the ionic step count.
C20_EntryPerCountedStep ==
    Parsed =>
        /\ e_data[1].electronic_steps = SelectSeq(StepCounts, LAMBDA n : n > 0)
        /\ Len(e_data[1].electronic_steps) <= e_data[1].ionic_steps

\* two ionic steps, the first without iteration lines: one entry
C20_Witness ==
    /\ Parsed
    /\ EnergyCall({"analyze_convergence"})
    /\ last.val.ionic_steps = 2
    /\ last.val.electronic_steps = <<2>>
    /\ outcar[1].k = "fheader"

\* the stress headers of the log
StressHeaders == {i \in 1..Len(outcar) : outcar[i].k = "sheader"}

\* the rows in the lookahead of the header at line i
RowsAfter(i) ==
    SelectSeq(Positions(i + 1, Min(i + 10, Len(outcar))), LAMBDA j : outcar[j].k = "srow")

\* C21: a stress header looks at no more than the 10 lines after it, the rows found
\* there make one batch for that header, so the stress sequence has at most one
\* batch per header, and get_final_stress returns the whole batch of the last header
\* that has rows.
C21_BatchPerHeader ==
    Parsed =>
        /\ Len(e_data[1].stress) <= Cardinality(StressHeaders)
        /\ \A i \in StressHeaders :
              (/\ RowsAfter(i) # <<>>
               /\ \A h \in StressHeaders : h > i => RowsAfter(h) = <<>>
               /\ EnergyCall({"get_final_stress"})) =>
                  /\ last.val # None
                  /\ Len(last.val[1]) = 3 * Len(RowsAfter(i))

\* the accuracy-reached marker is on some line of the log
MarkerInLog == \E i \in 1..Len(outcar) : outcar[i].k = "acc"

\* C22: the convergence flag of the record is true exactly when the accuracy-reached
\* marker is on some line of the log, whatever energies, force blocks or steps the
\* log has; is_converged returns that flag.
C22_ConvergedIffMarker ==
    Parsed =>
        /\ e_data[1].convergence = MarkerInLog
        /\ EnergyCall({"is_converged"}) => last.val = MarkerInLog

\* a log with the marker and no energy has been found converged
C22_Witness ==
    /\ Parsed
    /\ EnergyCall({"is_converged"})
    /\ last.val = TRUE
    /\ e_data[1].energies = <<>>
    /\ Len(outcar) = 3
    /\ outcar[1].k = "acc"

\* the log up to line k and the log after it
Before(k) == SubSeq(outcar, 1, k)
After(k) == SubSeq(outcar, k + 1, Len(outcar))

\* the record of the log is the record of Before(k) followed by that of After(k)
Additive(k) ==
    /\ e_data[1].energies =
          ParseEnergies(Before(k)).energies \o ParseEnergies(After(k)).energies
    /\ e_data[1].forces = ParseForces(Before(k)) \o ParseForces(After(k))
    /\ e_data[1].ionic_steps =
          CheckConvergence(Before(k)).ionic_steps + CheckConvergence(After(k)).ionic_steps

\* C23: when a log is a log A followed by a log B and A does not end inside an open
\* force block, its energies and its force snapshots are those of A followed by
\* those of B, and its ionic step count is the sum of the two counts.
C23_ConcatenationAdditive ==
    Parsed => \A k \in 0..Len(outcar) : ~InBlockAt(k + 1) => Additive(k)

\* two runs, each with an energy and a closed force block, parsed as one log
C23_Witness ==
    /\ Parsed
    /\ Len(outcar) = 8
    /\ ~InBlockAt(5)
    /\ Len(ParseForces(Before(4))) = 1
    /\ Len(ParseForces(After(4))) = 1
    /\ Len(e_data[1].forces) = 2
    /\ Len(e_data[1].energies) = 2
    /\ e_data[1].ionic_steps = 2

\* the headers of kind header whose block can give a snapshot: some line after the
\* header and its first row is a blank line or dashes, with no other header and no
\* other blank line or dashes in between
ClosedBlocks(headers) ==
    {h \in 1..Len(outcar) :
        /\ outcar[h].k \in headers
        /\ \E t \in (h + 2)..Len(outcar) :
              /\ outcar[t].k \in {"blank", "sep"}
              /\ \A j \in (h + 1)..(t - 1) : outcar[j].k \notin headers \cup {"blank", "sep"}}

\* C29: every snapshot of forces and of magnetic_moments is non-empty, and there are
\* no more snapshots than headers: a block closed right under its header, a block
\* open at the end of the file and a block cut by the next header give no snapshot.
C29_SnapshotsOfClosedBlocks ==
    Parsed =>
        /\ \A k \in 1..Len(e_data[1].forces) : e_data[1].forces[k] # <<>>
        /\ \A k \in 1..Len(e_data[1].magnetic_moments) : e_data[1].magnetic_moments[k] # <<>>
        /\ Len(e_data[1].forces) <= Cardinality(ClosedBlocks({"fheader", "fhalf"}))
        /\ Len(e_data[1].magnetic_moments) <= Cardinality(ClosedBlocks({"mheader"}))

\* a force block and a magnetization block both open at the end of the file: their
\* rows were read and no snapshot is stored
C29_Witness ==
    /\ Parsed
    /\ e_data[1].forces = <<>>
    /\ e_data[1].magnetic_moments = <<>>
    /\ Len(outcar) = 4
    /\ outcar[1].k = "fheader" /\ outcar[2].k = "frow"
    /\ outcar[3].k = "mheader" /\ outcar[4].k = "mrow"
    /\ EnergyCall({"get_final_forces"})
    /\ last.val = None

\* the last "E-fermi :" value of the companion OUTCAR, if it has one
LastFermi ==
    LET matches == {i \in 1..Len(outcar) : outcar[i].k = "fermi"}
    IN  IF matches = {} THEN None
        ELSE Some(outcar[CHOOSE i \in matches : \A j \in matches : j <= i].v)

\* C24: the fermi energy of a loaded DOSAnalyzer is the last fermi-level match of the
\* companion OUTCAR, whatever EFERMI the DOSCAR header holds; without the OUTCAR the
\* load succeeds with no fermi energy, and then get_band_gap returns nothing and
\* get_dos_at_fermi and integrate_dos return 0.0 without raising.
C24_FermiFromCompanionLog ==
    d_is_loaded =>
        /\ outcar_exists => d_fermi = LastFermi
        /\ ~outcar_exists =>
              /\ d_fermi = None
              /\ DosCall({"load_data"}) => last.exc = "none"
              /\ DosCall({"get_band_gap"}) => (last.exc = "none" /\ last.val = None)
              /\ DosCall({"get_dos_at_fermi", "integrate_dos"}) =>
                    (last.exc = "none" /\ last.val = 0)

\* a DOSCAR with samples was loaded without its OUTCAR and integrate_dos returned 0.0
C24_Witness ==
    /\ d_is_loaded
    /\ ~outcar_exists
    /\ dos_data[1].energies # <<>>
    /\ dos_data[1].header.efermi = 400
    /\ DosCall({"integrate_dos"})
    /\ last.val = 0

\* the eigenvalues at or below the fermi energy and those above it
AtOrBelowFermi ==
    {composite.eigenvalues[1][i] : i \in 1..Len(composite.eigenvalues[1])}
        \cap {e \in EigenVals : e <= composite.fermi_energy[1]}
AboveFermi ==
    {composite.eigenvalues[1][i] : i \in 1..Len(composite.eigenvalues[1])}
        \cap {e \in EigenVals : e > composite.fermi_energy[1]}

\* the gap the claim gives for these eigenvalues
ClaimedGap ==
    IF composite.eigenvalues = None \/ composite.fermi_energy = None THEN None
    ELSE IF AtOrBelowFermi = {} \/ AboveFermi = {} THEN None
    ELSE LET gap == (CHOOSE c \in AboveFermi : \A e \in AboveFermi : c <= e)
                    - (CHOOSE v \in AtOrBelowFermi : \A e \in AtOrBelowFermi : v >= e)
         IN  IF gap < 10 THEN Some(0) ELSE Some(gap)

\* C25: with eigenvalues and a fermi energy, the band gap is the least eigenvalue
\* above the fermi energy minus the greatest at or below it, 0 when that is below
\* 0.01, absent when either side is empty; the material is a metal at gap 0, a
\* semimetal below 0.5, a semiconductor from 0.5 and below 3.0, an insulator from
\* 3.0, and unknown when the gap is absent.
C25_GapAndMaterialType ==
    /\ (CompositeCall("band", {"calculate_band_gap"}) /\ last.exc = "none") =>
          last.val = ClaimedGap
    /\ (CompositeCall("band", {"analyze_electronic_structure"}) /\ last.exc = "none") =>
          /\ last.val.band_gap = ClaimedGap
          /\ last.val.material_type =
                (IF ClaimedGap = None THEN "unknown"
                 ELSE IF ClaimedGap[1] = 0 THEN "metal"
                 ELSE IF ClaimedGap[1] < 500 THEN "semimetal"
                 ELSE IF ClaimedGap[1] < 3000 THEN "semiconductor"
                 ELSE "insulator")

\* eigenvalues -0.1, 0.4 and 0.9 around the fermi energy 0.4: a gap of 0.5, a
\* semiconductor
C25_Witness ==
    /\ CompositeCall("band", {"analyze_electronic_structure"})
    /\ composite.eigenvalues = Some(<<-100, 400, 900>>)
    /\ composite.fermi_energy = Some(400)
    /\ last.val.band_gap = Some(500)
    /\ last.val.material_type = "semiconductor"

\* C26: a BandAnalyzer used through load_data, calculate_band_gap, get_band_extrema
\* and analyze_electronic_structure never has eigenvalues: the band gap is absent,
\* the band extrema are empty and the material type is 'unknown', whatever the log.
C26_AlwaysUnknown ==
    /\ composite.eigenvalues = None
    /\ (CompositeCall("band", {"calculate_band_gap"}) /\ last.exc = "none") =>
          last.val = None
    /\ (CompositeCall("band", {"get_band_extrema"}) /\ last.exc = "none") =>
          /\ last.val.vbm = None /\ last.val.vbm_relative = None
          /\ last.val.cbm = None /\ last.val.cbm_relative = None
          /\ last.val.fermi_energy = None
    /\ (CompositeCall("band", {"analyze_electronic_structure"}) /\ last.exc = "none") =>
          /\ last.val.band_gap = None
          /\ last.val.band_extrema.vbm = None /\ last.val.band_extrema.cbm = None
          /\ last.val.band_extrema.fermi_energy = None
          /\ last.val.material_type = "unknown"

\* the analysis of a log with a fermi level and an energy, after a reload: unknown
C26_Witness ==
    /\ CompositeCall("band", {"analyze_electronic_structure"})
    /\ last.exc = "none"
    /\ parses = 2
    /\ last.val.fermi_energy = Some(400)
    /\ composite.outcar_data[1].energies # <<>>
    /\ last.val.material_type = "unknown"

----------------------------------------------------------------------------
\* C27: check_results ends with status COMPLETED whenever the work directory's OUTCAR
\* (and, for the DOS task, its DOSCAR) exists and the energy analysis of the OUTCAR
\* succeeds
C27_CompletedWhenAnalysisSucceeds ==
    (/\ last.op = "check_results"
     /\ outcar_exists
     /\ composite.kind = "dos" => doscar_exists
     /\ E_load_data(E_init, outcar_exists, outcar).exc = "none")
        => composite.status = "COMPLETED"

----------------------------------------------------------------------------
\* a step of load_data, called directly or from a thread's query, on a missing OUTCAR
FailingLoad ==
    /\ ~outcar_exists
    /\ E_LoadData \/ \E t \in 1..Len(threads) : T_Parse(t)

\* an answered query of a thread, after the OUTCAR is gone
AnsweredAfterRemoval == ~outcar_exists /\ last.obj = "thread" /\ last.exc = "none"

\* C28: in every state _is_loaded implies that _data is set, also when the calls of
\* several threads interleave; a load_data that fails on a missing OUTCAR leaves _data
\* and _is_loaded as they were; and a query answered after the OUTCAR is gone returns
\* the field of the record parsed from the lines the file had
C28_LoadedKeepsRecord ==
    /\ [](e_is_loaded => e_data # None)
    /\ [][FailingLoad => e_data' = e_data /\ e_is_loaded' = e_is_loaded]_vars
    /\ [](AnsweredAfterRemoval =>
            /\ e_data = Some(ParseOutcar(outcar))
            /\ last.val = E_answer(last.op, ParseOutcar(outcar)))

\* C28 witness: the instance is loaded, the OUTCAR is gone, a direct load_data has
\* just raised FileFormatError, the record is still there and a thread that entered
\* its query is about to answer from it
C28_Witness ==
    /\ ~outcar_exists
    /\ e_is_loaded
    /\ e_data = Some(ParseOutcar(outcar))
    /\ last.op = "load_data"
    /\ last.exc = "FileFormatError"
    /\ \E t \in 1..Len(threads) : threads[t].pc = "answer"

----------------------------------------------------------------------------
\* the numbers on the last line of the log that reports image energies
LastNebNumbers ==
    LET matching == {i \in 1..Len(outcar) : outcar[i].k = "neb"}
    IN  IF ~outcar_exists \/ matching = {} THEN <<>>
        ELSE outcar[CHOOSE i \in matching : \A j \in matching : j <= i].v

\* the numbers of s that are not zero, in the order they have in s
WithoutZeros(s) ==
    LET kept == {i \in 1..Len(s) : s[i] # 0}
    IN  [k \in 1..Cardinality(kept) |->
            s[CHOOSE i \in kept : Cardinality({j \in kept : j <= i}) = k]]

\* C30: extract_neb_energies never raises; it returns the numbers of the last matching
\* line of the log in line order without those that are zero, and the empty list when
\* the file is missing or no line matches; the two energy methods applied to the
\* returned path of at least three images take the first image that is left as their
\* reference, the one after a leading image of energy 0
C30_PathWithoutZeros ==
    /\ CompositeCall("neb", {"extract_neb_energies"}) =>
          /\ last.exc = "none"
          /\ last.val = WithoutZeros(LastNebNumbers)
          /\ series = last.val
    /\ (/\ CompositeCall("neb", {"calculate_activation_energy"})
        /\ last.arg = WithoutZeros(LastNebNumbers)
        /\ Len(last.arg) >= 3) =>
          last.val = Some(Max(last.arg) - WithoutZeros(LastNebNumbers)[1])
    /\ (/\ CompositeCall("neb", {"calculate_reaction_energy"})
        /\ last.arg = WithoutZeros(LastNebNumbers)
        /\ Len(last.arg) >= 3) =>
          last.val = Some(Last(last.arg) - WithoutZeros(LastNebNumbers)[1])

\* C30 witness: the log has two lines of image energies, the last one with the energies
\* 0, 0.3, 0.8, 0.2, -0.1; the returned path starts at 0.3 and the activation energy
\* computed from it is 0.8 - 0.3
C30_Witness ==
    /\ outcar_exists
    /\ outcar = <<Line("neb", <<300, 0, 800>>), Line("neb", ExamplePath)>>
    /\ CompositeCall("neb", {"calculate_activation_energy"})
    /\ last.arg = <<300, 800, 200, -100>>
    /\ last.val = Some(500)

====
